---- MODULE Spec2Model ----
(***************************************************************************)
(* Model of the metanet-desktop renderer: the two listeners of the         *)
(* http-request channel (the capability bridge onWalletReady and the       *)
(* background status bridge startHttpBridge), the persisted network mode,  *)
(* the classifier of outbound calls, the patched window.fetch and ProxyXHR *)
(* of fetchProxy.ts, and startMndHeal, watchdog and retryPing of           *)
(* mndHeal.ts.                                                             *)
(***************************************************************************)
EXTENDS Integers, Sequences, FiniteSets, TLC

VARIABLES
  httpBridgeStarted, \* window.__mndHttpBridgeStarted (main.tsx call site)
  stop,              \* httpBridge.ts: stop !== null
  bgStarting,        \* startHttpBridge calls suspended at `await listen`
  bgListeners,       \* http-request listeners registered by startHttpBridge
  capListeners,      \* http-request listeners registered by onWalletReady
  events,            \* request_id -> payload of the http-request events the host
                     \* has emitted and not yet forgotten
  capInbox,          \* events delivered to the capability listener, not yet run
  bgInbox,           \* events delivered to the background listener, not yet run
  capSeen,           \* events the capability listener was registered for
  bgSeen,            \* events the background listener was registered for
  capTasks,          \* capability handlers suspended at `await wallet.op(...)`
  walletCalls,       \* the invocations of the wallet interface
  responses,         \* the ts-responses emitted, in order
  emitFailed,        \* events for which an emit() call rejected
  storageNet,        \* localStorage['mnd.network']
  lastNet,           \* httpBridge.ts: lastNet
  lastNetAt,         \* httpBridge.ts: lastNetAt
  now,               \* Date.now()
  lastSet,           \* the latest POST /setNetwork handle() ran on
  rateStore,         \* localStorage['mnd.exrate'] / ['mnd.exrate_at']
  url,               \* the outbound URL given to the classifier
  verdict,           \* what the patched fetch did with it
  call,              \* an outbound call made by UI or library code
  pc,                \* where that call is: idle, opened, awaiting, done
  xhrTarget,         \* the URL super.open() was given
  xhrHeaders,        \* ProxyXHR.__mnd_headers: the headers set so far
  issued,            \* the original (un-intercepted) calls issued
  invoked,           \* the native-host round trips made
  seen,              \* what the caller of the call observes
  readOnlyThrows,    \* whether the webview throws on `xhr.readyState = 4`
  readyState,        \* xhr.readyState as the caller reads it
  fired,             \* the events ProxyXHR delivered to the caller's observers
  superseded,        \* whether the caller aborted or re-opened the object in flight
  page,              \* the document: loading, or live
  loads,             \* page loads so far
  starting,          \* startMndHeal calls suspended at their probes, oldest first,
                     \* each with what its probes come to
  listeners,         \* 'online' (and 'offline') listeners startMndHeal added
  dogs,              \* the watchdog() instances of the page, in start order
  banner,            \* #mnd-heal-banner: its text, or "none" when absent
  online,            \* navigator.onLine
  reloadLog,         \* the location.replace calls made, over all page loads
  script,            \* what the probes of one endpoint come to, attempt by attempt
  rp,                \* a retryPing(url) call on that endpoint
  probe               \* a pingOnce(url) call, with the answer its fetch is to get

bridgeVars == <<httpBridgeStarted, stop, bgStarting, bgListeners, capListeners,
                events, capInbox, bgInbox, capSeen, bgSeen, capTasks,
                walletCalls, responses, emitFailed>>
netVars == <<storageNet, lastNet, lastNetAt, now, lastSet, rateStore>>
fetchVars == <<url, verdict>>
proxyVars == <<call, pc, xhrTarget, xhrHeaders, issued, invoked, seen, readOnlyThrows,
               readyState, fired, superseded>>
retryVars == <<script, rp, probe>>
healVars == <<page, loads, starting, listeners, dogs, banner, online, reloadLog, retryVars>>
vars == <<bridgeVars, netVars, fetchVars, proxyVars, healVars>>

----------------------------------------------------------------------------
(* Bounds of the model *)

\* page loads followed
MaxLoads == 2
\* watchdog() instances started in one page
MaxWatchdogs == 2

\* calls of startHttpBridge() in SpecStart
MaxStarts == 2

\* http-request events in flight at once in SpecConc
MaxConcurrent == 2

\* http-request events in flight at once (the host reuses the request_id of a
\* request once every listener has finished with it)
MaxInFlight == 1
\* clock steps in one behaviour of SpecNet
MaxTicks == 2
\* milliseconds per clock step
TickMs == 500
\* Date.now() when the module is loaded
StartNow == 1000

(* Program constants *)
NET_TTL_MS == 1000
RATE_TTL_MS == 60000

----------------------------------------------------------------------------
(* String functions, on the values the host requests are built from *)

UrlA == "https://app.example:8080"
BareA == "app.example"
BadHost == "bad host"

\* String.prototype.toLowerCase on header names
ToLowerCase(s) ==
  CASE s = "Origin" -> "origin"
    [] s = "Originator" -> "originator"
    [] s = "X-Other" -> "x-other"
    [] OTHER -> s

\* rawOriginator.includes('://')
HasScheme(s) == s \in {UrlA, "http://" \o BareA, "http://" \o BadHost}

\* new URL(s).host; ok = FALSE when the constructor throws
NewURLHost(s) ==
  CASE s = UrlA -> [ok |-> TRUE, host |-> "app.example:8080"]
    [] s = "http://" \o BareA -> [ok |-> TRUE, host |-> "app.example"]
    [] OTHER -> [ok |-> FALSE, host |-> ""]

\* httpBridge.ts dequote: trim, then strip one pair of surrounding quotes
Dequote(s) ==
  CASE s = "'GET'" -> "GET"
    [] s = " POST " -> "POST"
    [] OTHER -> s

\* new URL(path, 'http://localhost').pathname
Pathname(p) ==
  CASE p = "/getStatus?probe=1" -> "/getStatus"
    [] p = "getStatus" -> "/getStatus"
    [] p = "" -> "/"
    [] OTHER -> p

\* JSON.parse(body) succeeds
JsonParses(b) == b \in {"{}", "{network:test}", "{network:main}", "{network:TEST}",
                        "{network:bogus}", "{network:}", "null"}

\* String(parseBody(body)?.network ?? '').toLowerCase()
RequestedNetwork(b) ==
  CASE b \in {"{network:test}", "{network:TEST}"} -> "test"
    [] b = "{network:main}" -> "main"
    [] b = "{network:bogus}" -> "bogus"
    [] OTHER -> ""

----------------------------------------------------------------------------
(* The host's requests *)

Headers(pairs) == [isList |-> TRUE, pairs |-> pairs]
NotAList == [isList |-> FALSE, pairs |-> <<>>]

Request(method, path, headers, body, hasId) ==
  [json |-> TRUE, hasId |-> hasId, method |-> method, path |-> path,
   headers |-> headers, body |-> body]

\* a payload JSON.parse rejects
Malformed ==
  [json |-> FALSE, hasId |-> FALSE, method |-> "", path |-> "",
   headers |-> NotAList, body |-> ""]

NoOriginHeaders == Headers(<<>>)
GoodOrigin == Headers(<< <<"Origin", UrlA>> >>)

HeaderLists ==
  { NoOriginHeaders,
    GoodOrigin,
    Headers(<< <<"origin", BareA>> >>),
    Headers(<< <<"Originator", BareA>> >>),
    Headers(<< <<"originator", UrlA>> >>),
    Headers(<< <<"originator", BadHost>> >>),
    Headers(<< <<"origin", BadHost>>, <<"Origin", UrlA>> >>),
    Headers(<< <<"origin", "">>, <<"originator", BareA>> >>),
    Headers(<< <<"X-Other", UrlA>> >>) }

\* the operation table of onWalletReady
ReviewPaths == {"/createAction", "/signAction", "/internalizeAction"}
NoArgPaths == {"/isAuthenticated", "/waitForAuthentication", "/getHeight",
               "/getNetwork", "/getVersion"}
ArgPaths ==
  ReviewPaths \cup
  {"/abortAction", "/listActions", "/listOutputs", "/relinquishOutput",
   "/getPublicKey", "/revealCounterpartyKeyLinkage", "/revealSpecificKeyLinkage",
   "/encrypt", "/decrypt", "/createHmac", "/verifyHmac", "/createSignature",
   "/verifySignature", "/acquireCertificate", "/listCertificates",
   "/proveCertificate", "/relinquishCertificate", "/discoverByIdentityKey",
   "/discoverByAttributes", "/getHeaderForHeight"}
CapPaths == ArgPaths \cup NoArgPaths

\* the requests the host sends to the capability bridge in SpecCap
CapRequests ==
  { Request("POST", p, h, "{}", TRUE) :
      p \in {"/createAction", "/getVersion", "/nope"}, h \in HeaderLists }
  \cup { Request("POST", p, h, "{}", TRUE) :
      p \in {"/abortAction", "/getNetwork"}, h \in {NoOriginHeaders, GoodOrigin} }
  \cup { Request("POST", p, h, "not json", TRUE) :
      p \in {"/createAction", "/abortAction", "/getVersion"},
      h \in {NoOriginHeaders, GoodOrigin} }
  \cup { Request("POST", p, NotAList, "{}", TRUE) : p \in {"/createAction", "/nope"} }
  \cup { Request("POST", p, GoodOrigin, "{}", FALSE) : p \in {"/createAction", "/nope"} }
  \cup { Request("GET", "/getStatus?probe=1", GoodOrigin, "", TRUE) }
  \cup { Malformed }

\* the requests the host sends to the background bridge in SpecBg
BgRequests ==
  { Request(m, p, GoodOrigin, "{network:test}", TRUE) :
      m \in {"GET", "POST", "PUT", "'GET'"},
      p \in {"/bridge/ready", "/getStatus", "/getStatus?probe=1", "/exchangerate",
             "/getNetwork", "/setNetwork", "/createAction", ""} }
  \cup { Request("GET", "/getStatus", NotAList, "", FALSE),
         Request("PUT", "/nope", NoOriginHeaders, "not json", FALSE) }
  \cup { Malformed }

\* the requests the host sends in SpecConc, where requests overlap
ConcRequests ==
  { Request("POST", p, GoodOrigin, "{}", TRUE) :
      p \in {"/waitForAuthentication", "/createAction", "/getVersion", "/nope"} }

\* the requests the host sends in Spec, where both bridges listen
HostRequests ==
  { Request("POST", "/createAction", GoodOrigin, "{}", TRUE),
    Request("POST", "/createAction", NoOriginHeaders, "{}", TRUE),
    Request("POST", "/createAction", GoodOrigin, "{}", FALSE),
    Request("POST", "/getVersion", Headers(<< <<"origin", BareA>> >>), "", TRUE),
    Request("POST", "/getNetwork", GoodOrigin, "", TRUE),
    Request("POST", "/setNetwork", GoodOrigin, "{network:test}", TRUE),
    Request("GET", "/getStatus", NoOriginHeaders, "", TRUE),
    Request("GET", "/getStatus", NotAList, "", FALSE),
    Request("GET", "/bridge/ready", GoodOrigin, "", TRUE),
    Request("GET", "/nope", GoodOrigin, "", TRUE),
    Malformed }

\* the requests the host sends in SpecNet
NetRequests ==
  { Request("POST", "/setNetwork", NoOriginHeaders, b, TRUE) :
      b \in {"{network:test}", "{network:main}", "{network:TEST}", "{network:bogus}",
             "{network:}", "", "not json"} }
  \cup { Request(m, "/getNetwork", NoOriginHeaders, "", TRUE) : m \in {"GET", "POST"} }

----------------------------------------------------------------------------
(* ts-response payloads *)

\* request_id as it goes on the wire: def = FALSE is JavaScript's undefined
Id(n) == [def |-> TRUE, val |-> n]
NoId == [def |-> FALSE, val |-> 0]

\* the request_id field of the parsed payload of event n
RawId(n) == IF events[n].json /\ events[n].hasId THEN Id(n) ELSE NoId

Body(kind) == [kind |-> kind, net |-> ""]
NetBody(kind, net) == [kind |-> kind, net |-> net]

\* a ts-response; ev, by and via record which event it answers and which
\* emit call of which listener sent it
Resp(n, by, via, id, status, body) ==
  [ev |-> n, by |-> by, via |-> via, id |-> id, status |-> status, body |-> body]

----------------------------------------------------------------------------
(* The background status bridge: src/bridge/httpBridge.ts *)

\* normalizeReq losing the request_id
NormalizeIdZero(raw) == Id(0)

\* normalizeReq: request_id = Number(raw?.request_id ?? 0)
NormalizeId(raw) == IF raw.def THEN raw ELSE Id(0)

NormalizeReq(n) ==
  [method |-> Dequote(events[n].method), path |-> Dequote(events[n].path),
   body |-> events[n].body, request_id |-> NormalizeId(RawId(n))]

\* localStorage.getItem(STORAGE_KEY_NET)?.trim().toLowerCase()
TrimLower(v) ==
  CASE v = " TEST " -> "test"
    [] v = "Main" -> "main"
    [] OTHER -> v

StorageValues == {"null", "main", "test", " TEST ", "Main", "junk"}

\* readNet; throws = localStorage.getItem threw
ReadNet(v, throws) ==
  IF throws THEN "main" ELSE IF TrimLower(v) = "test" THEN "test" ELSE "main"

\* the endpoint handle() selects for a method and a pathname
Route(method, pathname) ==
  CASE method = "GET" /\ pathname = "/bridge/ready" -> "ready"
    [] method \in {"GET", "POST"} /\ pathname = "/getNetwork" -> "getNetwork"
    [] method = "POST" /\ pathname = "/setNetwork" -> "setNetwork"
    [] method = "GET" /\ pathname = "/exchangerate" -> "exchangerate"
    [] method \in {"GET", "POST"} /\ pathname = "/getStatus" -> "getStatus"
    [] OTHER -> "default"

RouteOf(req) == Route(req.method, Pathname(req.path))

\* handle(), /setNetwork keeping the cached mode whatever is asked for
NextNetKeep(requested, last) == last

\* handle(), /setNetwork: the value `next` takes
NextNet(requested, last) ==
  IF requested = "test" THEN "test" ELSE IF requested = "main" THEN "main" ELSE last

\* handle(), /getNetwork: whether the cached mode is refreshed from storage
NetCacheExpired(t, at) == t - at >= NET_TTL_MS

\* handle(), /exchangerate: readCachedRate() is non-null and fresh
RateFresh(rate, t) == rate.has /\ rate.parses /\ rate.at # 0 /\ t - rate.at < RATE_TTL_MS

\* handle(), /exchangerate: { ...cached.value, cached: true }. The members of
\* an object are spread into the reply; a number has none, so the reply is
\* {cached: true} alone
SpreadCached(value) ==
  IF value = "object" THEN Body("rate_cached") ELSE Body("cached_true_only")

\* handle() answering 404 by default
DefaultReplyNotFound == [status |-> 404, body |-> Body("unknown_path")]

\* handle(), the default reply
DefaultReply == [status |-> 200, body |-> Body("ok_true")]

\* handle(): the reply and the new values of lastNet, lastNetAt and of the
\* stored mode (write.do = FALSE: no successful setItem). readThrows and
\* writeThrows say whether localStorage threw in readNet and in writeNet.
Handle(req, readThrows, writeThrows) ==
  LET route == RouteOf(req)
      same == [lastNet |-> lastNet, lastNetAt |-> lastNetAt,
               write |-> [do |-> FALSE, val |-> ""]]
  IN
  CASE route = "ready" -> [status |-> 200, body |-> Body("ready")] @@ same
    [] route = "getNetwork" ->
         LET net == IF NetCacheExpired(now, lastNetAt)
                      THEN ReadNet(storageNet, readThrows) ELSE lastNet
         IN [status |-> 200, body |-> NetBody("network", net), lastNet |-> net,
             lastNetAt |-> IF NetCacheExpired(now, lastNetAt) THEN now ELSE lastNetAt,
             write |-> [do |-> FALSE, val |-> ""]]
    [] route = "setNetwork" ->
         LET next == NextNet(RequestedNetwork(req.body), lastNet) IN
         IF next # "main" /\ next # "test"
           THEN [status |-> 400, body |-> Body("invalid_network")] @@ same
           ELSE [status |-> 200, body |-> NetBody("set_ok", next), lastNet |-> next,
                 lastNetAt |-> now, write |-> [do |-> ~writeThrows, val |-> next]]
    [] route = "exchangerate" ->
         IF RateFresh(rateStore, now)
           THEN [status |-> 200, body |-> SpreadCached(rateStore.value)] @@ same
           ELSE [status |-> 200, body |-> Body("rate_unavailable")] @@ same
    [] route = "getStatus" -> [status |-> 200, body |-> Body("status_ok")] @@ same
    [] OTHER -> DefaultReply @@ same

\* makeResp: the reply carries req.request_id
MakeResp(n, req, status, body) == Resp(n, "bg", "handle", req.request_id, status, body)

\* the listener's catch: request_id = req?.request_id ?? 0, status 200
Fallback(n, id) == Resp(n, "bg", "fallback", id, 200, Body("bridge_fallback"))

\* the storage accesses handle() makes for a request
ReadsStorage(req) == RouteOf(req) = "getNetwork" /\ NetCacheExpired(now, lastNetAt)
WritesStorage(req) ==
  /\ RouteOf(req) = "setNetwork"
  /\ NextNet(RequestedNetwork(req.body), lastNet) \in {"main", "test"}

NoSet == [test |-> FALSE, at |-> 0, clean |-> FALSE]

\* what is remembered of the latest POST /setNetwork once handle() ran on
\* req: whether it asked for "test" and its reply, with status 200, was
\* emitted (test), when handle() ran on it (at), and whether localStorage has
\* not thrown from its write on (clean)
LastSetAfter(req, h, replied, readThrows, writeThrows) ==
  IF RouteOf(req) = "setNetwork"
    THEN IF RequestedNetwork(req.body) = "test" /\ h.status = 200 /\ replied
           THEN [test |-> TRUE, at |-> now, clean |-> ~writeThrows]
           ELSE NoSet
  ELSE IF lastSet.test THEN [lastSet EXCEPT !.clean = @ /\ ~readThrows]
  ELSE lastSet

\* the http-request listener of startHttpBridge, run on the oldest event n it
\* was given: parse, normalizeReq, handle, emit; on any exception emit the
\* fallback. ok1, ok2: whether the emit of the reply and of the fallback resolve.
BgReceive(n) ==
  /\ bgInbox # <<>>
  /\ n = Head(bgInbox)
  /\ bgInbox' = Tail(bgInbox)
  /\ \E ok1, ok2, readThrows, writeThrows \in BOOLEAN :
       /\ emitFailed' = IF ok1 /\ ok2 THEN emitFailed ELSE emitFailed \cup {n}
       /\ IF ~events[n].json
            THEN \* JSON.parse throws: req is still null
              /\ ok1 /\ ~readThrows /\ ~writeThrows
              /\ responses' = IF ok2 THEN Append(responses, Fallback(n, Id(0)))
                                     ELSE responses
              /\ UNCHANGED <<storageNet, lastNet, lastNetAt, lastSet>>
            ELSE
              LET req == NormalizeReq(n)
                  h == Handle(req, readThrows, writeThrows)
              IN
              /\ readThrows => ReadsStorage(req)
              /\ writeThrows => WritesStorage(req)
              /\ ok1 => ok2
              /\ lastNet' = h.lastNet
              /\ lastNetAt' = h.lastNetAt
              /\ storageNet' = IF h.write.do THEN h.write.val ELSE storageNet
              /\ lastSet' = LastSetAfter(req, h, ok1, readThrows, writeThrows)
              /\ responses' =
                   IF ok1 THEN Append(responses, MakeResp(n, req, h.status, h.body))
                   ELSE IF ok2 THEN Append(responses, Fallback(n, req.request_id))
                   ELSE responses
  /\ UNCHANGED <<httpBridgeStarted, stop, bgStarting, bgListeners, capListeners,
                 events, capInbox, capSeen, bgSeen, capTasks, walletCalls,
                 now, rateStore, fetchVars, proxyVars, healVars>>

\* main.tsx: start the bridge once per window; startHttpBridge returns at once
\* when stop is set, and otherwise suspends at `await listen`
MainStartHttpBridge ==
  /\ ~httpBridgeStarted
  /\ httpBridgeStarted' = TRUE
  /\ bgStarting' = IF stop THEN bgStarting ELSE bgStarting + 1
  /\ UNCHANGED <<stop, bgListeners, capListeners, events, capInbox, bgInbox, capSeen,
                 bgSeen, capTasks, walletCalls, responses, emitFailed, netVars,
                 fetchVars, proxyVars, healVars>>

\* startHttpBridge() called by any module that imports it: it returns at
\* once when stop is set, and otherwise suspends at `await listen`
StartHttpBridge ==
  /\ ~stop
  /\ bgStarting + bgListeners < MaxStarts
  /\ bgStarting' = bgStarting + 1
  /\ UNCHANGED <<httpBridgeStarted, stop, bgListeners, capListeners, events, capInbox,
                 bgInbox, capSeen, bgSeen, capTasks, walletCalls, responses, emitFailed,
                 netVars, fetchVars, proxyVars, healVars>>

\* startHttpBridge after `await listen`: the listener is registered, stop is set
BgListenResolved ==
  /\ bgStarting > 0
  /\ bgStarting' = bgStarting - 1
  /\ bgListeners' = bgListeners + 1
  /\ stop' = TRUE
  /\ UNCHANGED <<httpBridgeStarted, capListeners, events, capInbox, bgInbox, capSeen,
                 bgSeen, capTasks, walletCalls, responses, emitFailed, netVars,
                 fetchVars, proxyVars, healVars>>

----------------------------------------------------------------------------
(* The capability bridge: onWalletReady *)

\* Object.fromEntries(headers.map(([k, v]) => [k.toLowerCase(), v]))[name];
\* "" stands for an absent header (both are falsy)
HeaderGet(pairs, name) ==
  LET idx == {i \in 1..Len(pairs) : ToLowerCase(pairs[i][1]) = name} IN
  IF idx = {} THEN ""
  ELSE pairs[CHOOSE i \in idx : \A j \in idx : j <= i][2]

HostOrigin(host) == [kind |-> "host", host |-> host]
OriginThrows == [kind |-> "throws", host |-> ""]
OriginMissing == [kind |-> "missing", host |-> ""]

\* parseOrigin: the host of the origin header, else of the originator header
\* (with http:// put before a bare host); kind "throws" when new URL throws,
\* "missing" when it emits the 400 reply and returns undefined
ParseOrigin(pairs) ==
  LET rawOrigin == HeaderGet(pairs, "origin")
      rawOriginator == HeaderGet(pairs, "originator")
      candidate == IF HasScheme(rawOriginator) THEN rawOriginator
                   ELSE "http://" \o rawOriginator
  IN
  IF rawOrigin # ""
    THEN IF NewURLHost(rawOrigin).ok THEN HostOrigin(NewURLHost(rawOrigin).host)
         ELSE OriginThrows
  ELSE IF rawOriginator # ""
    THEN IF NewURLHost(candidate).ok THEN HostOrigin(NewURLHost(candidate).host)
         ELSE OriginThrows
  ELSE OriginMissing

\* parseOrigin's own reply when both headers are absent
OriginRequired(n) == Resp(n, "cap", "parseOrigin", RawId(n), 400, Body("origin_required"))

\* the switch of onWalletReady: what the handler of a path does before any await
Dispatch(path, body) ==
  IF path \in ArgPaths /\ ~JsonParses(body) THEN "bad_args"
  ELSE IF path \in CapPaths THEN "call"
  ELSE "unknown"

\* the reply emitted after the switch carries req.request_id
CapResp(n, status, body) == Resp(n, "cap", "switch", RawId(n), status, body)

\* every handler flattening the error it caught
WalletReplyFlat(path, outcome) ==
  IF outcome = "ok" THEN [status |-> 200, body |-> Body("result")]
  ELSE [status |-> 400, body |-> Body("message")]

\* the reply of a handler whose wallet call ended with `outcome`
WalletReply(path, outcome) ==
  IF outcome = "ok" THEN [status |-> 200, body |-> Body("result")]
  ELSE IF outcome = "review" /\ path \in ReviewPaths
    THEN [status |-> 400, body |-> Body("review")]
  ELSE [status |-> 400, body |-> Body("message")]

\* the reply of a handler whose JSON.parse(req.body) threw
BadArgsReply == [status |-> 400, body |-> Body("message")]

\* the default case of the switch
UnknownPath == [status |-> 404, body |-> Body("unknown_path")]

\* the catch of the listener of onWalletReady: the replies it emits for an
\* exception thrown while handling event n (it only logs the error)
CapCatch(n) == <<>>

\* whether the listener throws before the switch: JSON.parse(event.payload),
\* req.headers.map, or new URL in parseOrigin
CapThrows(p) ==
  \/ ~p.json
  \/ ~p.headers.isList
  \/ ParseOrigin(p.headers.pairs).kind = "throws"

\* the http-request listener of onWalletReady, run on the oldest event n it
\* was given, up to its first await: parse, lower-case the headers,
\* parseOrigin, then the switch. ok1, ok2: whether the emit of parseOrigin and
\* the emit after the switch resolve.
CapReceive(n) ==
  /\ capInbox # <<>>
  /\ n = Head(capInbox)
  /\ capInbox' = Tail(capInbox)
  /\ \E ok1, ok2 \in BOOLEAN :
       LET p == events[n]
           origin == ParseOrigin(p.headers.pairs)
           first == IF origin.kind = "missing" /\ ok1 THEN <<OriginRequired(n)>> ELSE <<>>
           what == Dispatch(p.path, p.body)
           reply == IF what = "bad_args" THEN BadArgsReply ELSE UnknownPath
       IN
       /\ emitFailed' = IF ok1 /\ ok2 THEN emitFailed ELSE emitFailed \cup {n}
       /\ IF CapThrows(p)
            THEN /\ ok1 /\ ok2
                 /\ responses' = responses \o CapCatch(n)
                 /\ UNCHANGED <<capTasks, walletCalls>>
            ELSE /\ ~ok1 => origin.kind = "missing"
                 /\ IF what = "call"
                      THEN /\ ok2
                           /\ responses' = responses \o first
                           /\ capTasks' = capTasks \cup {[ev |-> n, origin |-> origin]}
                           /\ walletCalls' = walletCalls \cup
                                {[ev |-> n, op |-> p.path, origin |-> origin,
                                  outcome |-> "pending"]}
                      ELSE /\ responses' = responses \o first \o
                                (IF ok2 THEN <<CapResp(n, reply.status, reply.body)>>
                                 ELSE <<>>)
                           /\ UNCHANGED <<capTasks, walletCalls>>
  /\ UNCHANGED <<httpBridgeStarted, stop, bgStarting, bgListeners, capListeners,
                 events, bgInbox, capSeen, bgSeen, netVars, fetchVars, proxyVars, healVars>>

\* the handlers finishing in the order of their requests only
CapWalletDoneInOrder(t) ==
  /\ t \in capTasks
  /\ \A u \in capTasks : t.ev <= u.ev
  /\ capTasks' = capTasks \ {t}
  /\ \E outcome \in {"ok", "error", "review"}, ok \in BOOLEAN :
       LET reply == WalletReply(events[t.ev].path, outcome) IN
       /\ walletCalls' = {IF c.ev = t.ev THEN [c EXCEPT !.outcome = outcome] ELSE c :
                            c \in walletCalls}
       /\ emitFailed' = IF ok THEN emitFailed ELSE emitFailed \cup {t.ev}
       /\ responses' = IF ok THEN Append(responses, CapResp(t.ev, reply.status, reply.body))
                       ELSE responses
  /\ UNCHANGED <<httpBridgeStarted, stop, bgStarting, bgListeners, capListeners,
                 events, capInbox, bgInbox, capSeen, bgSeen, netVars,
                 fetchVars, proxyVars, healVars>>

\* the rest of a handler, after `await wallet.op(args, origin)` returned
\* ("ok") or threw an Error ("error") or a WERR_REVIEW_ACTIONS ("review"):
\* build the reply and emit it
CapWalletDone(t) ==
  /\ t \in capTasks
  /\ capTasks' = capTasks \ {t}
  /\ \E outcome \in {"ok", "error", "review"}, ok \in BOOLEAN :
       LET reply == WalletReply(events[t.ev].path, outcome) IN
       /\ walletCalls' = {IF c.ev = t.ev THEN [c EXCEPT !.outcome = outcome] ELSE c :
                            c \in walletCalls}
       /\ emitFailed' = IF ok THEN emitFailed ELSE emitFailed \cup {t.ev}
       /\ responses' = IF ok THEN Append(responses, CapResp(t.ev, reply.status, reply.body))
                       ELSE responses
  /\ UNCHANGED <<httpBridgeStarted, stop, bgStarting, bgListeners, capListeners,
                 events, capInbox, bgInbox, capSeen, bgSeen, netVars,
                 fetchVars, proxyVars, healVars>>

\* the UI calls onWalletReady once the wallet exists: `await listen`
OnWalletReady ==
  /\ capListeners = 0
  /\ capListeners' = 1
  /\ UNCHANGED <<httpBridgeStarted, stop, bgStarting, bgListeners, events, capInbox,
                 bgInbox, capSeen, bgSeen, capTasks, walletCalls, responses, emitFailed,
                 netVars, fetchVars, proxyVars, healVars>>

----------------------------------------------------------------------------
(* The native host *)

InSeq(x, q) == \E i \in 1..Len(q) : q[i] = x

\* every listener event n was delivered to has run to its end
CapDone(n) == n \in capSeen /\ ~InSeq(n, capInbox) /\ \A t \in capTasks : t.ev # n
BgDone(n) == n \in bgSeen /\ ~InSeq(n, bgInbox)
Settled(n) ==
  /\ n \in DOMAIN events
  /\ ~InSeq(n, capInbox) /\ ~InSeq(n, bgInbox)
  /\ \A t \in capTasks : t.ev # n

\* the request_id the host gives its next request: the least one that no
\* request it still holds has
FreeIds == {n \in 1..MaxInFlight : n \notin DOMAIN events}

\* the native host emits an http-request event with request_id n: every
\* registered listener gets it
HostEmit(req) ==
  /\ FreeIds # {}
  /\ LET n == CHOOSE i \in FreeIds : \A j \in FreeIds : i <= j IN
     /\ events' = [i \in DOMAIN events \cup {n} |-> IF i = n THEN req ELSE events[i]]
     /\ capInbox' = IF capListeners > 0 THEN Append(capInbox, n) ELSE capInbox
     /\ capSeen' = IF capListeners > 0 THEN capSeen \cup {n} ELSE capSeen
     /\ bgInbox' = bgInbox \o [k \in 1..bgListeners |-> n]
     /\ bgSeen' = IF bgListeners > 0 THEN bgSeen \cup {n} ELSE bgSeen
  /\ UNCHANGED <<httpBridgeStarted, stop, bgStarting, bgListeners, capListeners,
                 capTasks, walletCalls, responses, emitFailed, netVars, fetchVars, proxyVars, healVars>>

\* the native host emits an http-request event while earlier requests are
\* still unanswered; request_ids are given in the order of the requests
HostEmitConcurrent(req) ==
  /\ Cardinality(DOMAIN events) < MaxConcurrent
  /\ LET n == Cardinality(DOMAIN events) + 1 IN
     /\ events' = [i \in DOMAIN events \cup {n} |-> IF i = n THEN req ELSE events[i]]
     /\ capInbox' = IF capListeners > 0 THEN Append(capInbox, n) ELSE capInbox
     /\ capSeen' = IF capListeners > 0 THEN capSeen \cup {n} ELSE capSeen
     /\ bgInbox' = bgInbox \o [k \in 1..bgListeners |-> n]
     /\ bgSeen' = IF bgListeners > 0 THEN bgSeen \cup {n} ELSE bgSeen
  /\ UNCHANGED <<httpBridgeStarted, stop, bgStarting, bgListeners, capListeners,
                 capTasks, walletCalls, responses, emitFailed, netVars, fetchVars, proxyVars, healVars>>

\* the native host is done with request n, which every listener has finished
\* with: the request, and what was recorded for it, is dropped, and its
\* request_id can be used again
HostForget(n) ==
  /\ Settled(n)
  /\ events' = [i \in DOMAIN events \ {n} |-> events[i]]
  /\ capSeen' = capSeen \ {n}
  /\ bgSeen' = bgSeen \ {n}
  /\ walletCalls' = {c \in walletCalls : c.ev # n}
  /\ responses' = SelectSeq(responses, LAMBDA r : r.ev # n)
  /\ emitFailed' = emitFailed \ {n}
  /\ UNCHANGED <<httpBridgeStarted, stop, bgStarting, bgListeners, capListeners,
                 capInbox, bgInbox, capTasks, netVars, fetchVars, proxyVars, healVars>>

\* time passes
Tick ==
  /\ now < StartNow + MaxTicks * TickMs
  /\ now' = now + TickMs
  /\ UNCHANGED <<bridgeVars, storageNet, lastNet, lastNetAt, lastSet, rateStore,
                 fetchVars, proxyVars, healVars>>

----------------------------------------------------------------------------
(* The classifier of outbound calls: src/fetchProxy.ts *)

Last(q) == q[Len(q)]

\* An outbound URL string, by its parts: kind "abs" (scheme://host/path),
\* "rel" (a path, resolved against window.location.href) or "bad" (new URL
\* throws). A host is its dot-separated labels, a label its dash-separated
\* parts; a path is its slash-separated segments.
Label(a) == <<a>>
Url(scheme, host, path) == [kind |-> "abs", scheme |-> scheme, host |-> host, path |-> path]
RelUrl(path) == [kind |-> "rel", scheme |-> "", host |-> <<>>, path |-> path]
BadUrl == [kind |-> "bad", scheme |-> "", host |-> <<>>, path |-> <<>>]

\* window.location of the renderer
Location == [protocol |-> "http:", hostname |-> <<Label("localhost")>>]

\* toLowerCase on the parts URLs are built from
Lower(w) ==
  CASE w = "LOOKUP" -> "lookup"
    [] w = "Manifest.JSON" -> "manifest.json"
    [] w = "OVERLAY" -> "overlay"
    [] w = "EU" -> "eu"
    [] w = "BSVB" -> "bsvb"
    [] w = "TECH" -> "tech"
    [] w = "Babbage" -> "babbage"
    [] w = "HTTPS" -> "https"
    [] OTHER -> w

LowerSeq(q) == [i \in 1..Len(q) |-> Lower(q[i])]
LowerHost(h) == [i \in 1..Len(h) |-> LowerSeq(h[i])]

\* toURL taking a malformed URL for the manifest of the page
ToURLLenient(u) ==
  [ok |-> TRUE, protocol |-> "https:", hostname |-> <<Label("x")>>,
   pathname |-> IF u.kind = "bad" THEN <<"manifest.json">> ELSE u.path]

\* toURL: new URL(u, window.location.href), or null (ok = FALSE); the parser
\* lower-cases the scheme and the host
ToURL(u) ==
  CASE u.kind = "abs" -> [ok |-> TRUE, protocol |-> Lower(u.scheme) \o ":",
                          hostname |-> LowerHost(u.host), pathname |-> u.path]
    [] u.kind = "rel" -> [ok |-> TRUE, protocol |-> Location.protocol,
                          hostname |-> Location.hostname, pathname |-> u.path]
    [] OTHER -> [ok |-> FALSE, protocol |-> "", hostname |-> <<>>, pathname |-> <<>>]

IsHttps(u) == IF ToURL(u).ok THEN ToURL(u).protocol = "https:" ELSE FALSE
HostOf(u) == IF ToURL(u).ok THEN ToURL(u).hostname ELSE <<>>
PathOf(u) == IF ToURL(u).ok THEN LowerSeq(ToURL(u).pathname) ELSE <<>>

\* isHttpsManifest testing p.endsWith('manifest.json'), without the slash
IsHttpsManifestSuffix(u) ==
  IF ~IsHttps(u) THEN FALSE
  ELSE LET p == PathOf(u) IN
       Len(p) >= 1 /\ p[Len(p)] \in {"manifest.json", "foomanifest.json"}

\* p.endsWith('/manifest.json') || p === '/manifest.json'
IsHttpsManifest(u) ==
  IF ~IsHttps(u) THEN FALSE
  ELSE LET p == PathOf(u) IN Len(p) >= 1 /\ p[Len(p)] = "manifest.json"

\* pathOf(u) === '/lookup'
IsLookup(u) == PathOf(u) = <<"lookup">>

\* [a-z]+ and \d+ under the i flag
Letters(w) == Lower(w) \in {"overlay", "xoverlay", "eu", "us", "x", "foo"}
Digits(w) == w \in {"1", "22"}

\* the overlay pattern without its end anchor
IsOverlayHostUnanchored(h) ==
  /\ Len(h) >= 3
  /\ Len(h[1]) = 3
  /\ Lower(h[1][1]) = "overlay" /\ Letters(h[1][2]) /\ Digits(h[1][3])
  /\ LowerSeq(h[2]) = Label("bsvb")
  /\ LowerSeq(h[3]) = Label("tech")

\* /^overlay-[a-z]+-\d+\.bsvb\.tech$/i
IsOverlayHost(h) ==
  /\ Len(h) = 3
  /\ Len(h[1]) = 3
  /\ Lower(h[1][1]) = "overlay" /\ Letters(h[1][2]) /\ Digits(h[1][3])
  /\ LowerSeq(h[2]) = Label("bsvb")
  /\ LowerSeq(h[3]) = Label("tech")

\* /\.projects\.babbage\.systems$/i or /\.babbage\.systems$/i
EndsWithDot(h, tail) ==
  /\ Len(h) > Len(tail)
  /\ \A i \in 1..Len(tail) : LowerSeq(h[Len(h) - Len(tail) + i]) = Label(tail[i])

IsBackendHost(h) ==
  \/ EndsWithDot(h, <<"projects", "babbage", "systems">>)
  \/ EndsWithDot(h, <<"babbage", "systems">>)

\* !!(init && new Headers(init.headers || {}).get('x-mnd-bypass')); the value
\* "none" stands for a call without the header
Bypass(marker) == marker \notin {"none", ""}

\* the patched window.fetch failing overlay lookups over https only
FetchClassSecureOverlay(u, marker) ==
  IF Bypass(marker) THEN "bypass"
  ELSE IF IsHttps(u) /\ IsLookup(u) /\ IsOverlayHost(HostOf(u)) THEN "forced_failure"
  ELSE IF IsHttps(u) /\ IsLookup(u) /\ IsBackendHost(HostOf(u)) THEN "tunnel_lookup"
  ELSE IF IsHttpsManifest(u) THEN "tunnel_manifest"
  ELSE "pass_through"

\* the patched window.fetch: what it does with a call
FetchClass(u, marker) ==
  IF Bypass(marker) THEN "bypass"
  ELSE IF IsLookup(u) /\ IsOverlayHost(HostOf(u)) THEN "forced_failure"
  ELSE IF IsHttps(u) /\ IsLookup(u) /\ IsBackendHost(HostOf(u)) THEN "tunnel_lookup"
  ELSE IF IsHttpsManifest(u) THEN "tunnel_manifest"
  ELSE "pass_through"

OverlayEu1 == <<<<"overlay", "eu", "1">>, Label("bsvb"), Label("tech")>>
FooProjects == <<Label("foo"), Label("projects"), Label("babbage"), Label("systems")>>
ExampleCom == <<Label("example"), Label("com")>>

FetchHosts ==
  { OverlayEu1,
    <<<<"overlay", "us", "22">>, Label("bsvb"), Label("tech")>>,
    <<<<"OVERLAY", "EU", "1">>, Label("BSVB"), Label("TECH")>>,
    <<<<"overlay", "eu">>, Label("bsvb"), Label("tech")>>,
    <<<<"overlay", "1", "eu">>, Label("bsvb"), Label("tech")>>,
    <<<<"xoverlay", "eu", "1">>, Label("bsvb"), Label("tech")>>,
    OverlayEu1 \o ExampleCom,
    FooProjects,
    <<Label("x"), Label("Babbage"), Label("systems")>>,
    <<Label("babbage"), Label("systems")>>,
    <<Label("evilbabbage"), Label("systems")>>,
    FooProjects \o ExampleCom,
    ExampleCom,
    <<Label("x")>> }

FetchPaths ==
  { <<"lookup">>, <<"LOOKUP">>, <<"lookup", "">>, <<"api", "lookup">>,
    <<"manifest.json">>, <<"app", "Manifest.JSON">>, <<"foomanifest.json">>,
    <<"manifest.json", "x">>, <<"other">>, <<"">> }

FetchUrls ==
  { Url(sc, h, p) : sc \in {"https", "http", "HTTPS"}, h \in FetchHosts, p \in FetchPaths }
  \cup { RelUrl(p) : p \in FetchPaths }
  \cup { BadUrl }

Markers == {"none", "1", ""}

NoVerdict == [class |-> "none", marker |-> "none"]

\* a call of the patched window.fetch on url
FetchCall ==
  /\ verdict = NoVerdict
  /\ \E marker \in Markers :
       verdict' = [class |-> FetchClass(url, marker), marker |-> marker]
  /\ UNCHANGED <<url, bridgeVars, netVars, proxyVars, healVars>>

----------------------------------------------------------------------------
(* The patched window.fetch and ProxyXHR: src/fetchProxy.ts *)

\* the target ProxyXHR.open gives super.open for an intercepted call
AboutBlank == [kind |-> "abs", scheme |-> "about", host |-> <<>>, path |-> <<"blank">>]

\* An outbound call. idiom: fetch or xhr. marker: the value of the
\* x-mnd-bypass header ("none": not set). markerIn: where a fetch call carries
\* its method, headers and body, in the init argument or in a Request object
\* given as input with no init; an xhr call gives them to open,
\* setRequestHeader and send. onload: whether the caller assigned xhr.onload
\* (it always listens to the events with addEventListener).
Call(idiom, u, method, body, marker, markerIn, onload) ==
  [idiom |-> idiom, url |-> u, method |-> method, body |-> body,
   marker |-> marker, markerIn |-> markerIn, onload |-> onload]

NoCall == Call("none", BadUrl, "", "", "none", "none", FALSE)

ProxyHosts ==
  { OverlayEu1, FooProjects, ExampleCom, <<Label("x")>>,
    <<<<"OVERLAY", "EU", "1">>, Label("BSVB"), Label("TECH")>> }
ProxyPaths == { <<"lookup">>, <<"manifest.json">>, <<"other">> }
ProxyUrls ==
  { Url(sc, h, p) : sc \in {"https", "http"}, h \in ProxyHosts, p \in ProxyPaths }
  \cup { RelUrl(<<"lookup">>), BadUrl }

ProxyCalls ==
  { Call("fetch", u, m, b, k, w, FALSE) :
      u \in ProxyUrls, m \in {"GET", "post"}, b \in {"none", "text"},
      k \in {"none", "1"}, w \in {"init", "request"} }
  \cup
  { Call("xhr", u, m, b, k, "setRequestHeader", h) :
      u \in ProxyUrls, m \in {"GET", "post"}, b \in {"none", "text"},
      k \in {"none", "1"}, h \in BOOLEAN }

\* (method || 'GET').toUpperCase()
ToUpperCase(m) == IF m = "post" THEN "POST" ELSE m

\* what the caller observes: nothing yet, the outcome of the original call,
\* a network error, a synthesized response, or (xhr) properties defined but no
\* event fired because send() rejected
Pending == [kind |-> "pending", status |-> 0, body |-> "", softFail |-> FALSE]
Native == [kind |-> "native", status |-> 0, body |-> "", softFail |-> FALSE]
Observed(kind, status, body, softFail) ==
  [kind |-> kind, status |-> status, body |-> body, softFail |-> softFail]

\* softJsonEmpty(): status 200, the empty output list, x-mnd-soft-fail
SoftJsonEmpty == Observed("response", 200, "empty_output_list", TRUE)

\* an original call: originalFetch(input, init), or super.send(body) on the
\* request super.open() prepared
Original(via, target, method, marker, body) ==
  [via |-> via, url |-> target, method |-> method, marker |-> marker, body |-> body]

\* invoke('proxy_fetch_any', {method, url, headers, body}) and
\* invoke('proxy_fetch_manifest', {url}), whose payload has no method, headers
\* or body ("absent"); marker is the x-mnd-bypass value among the headers.
\* result: pending until the host answers, then ok or failed
ProxyAny(method, u, marker, body) ==
  [cmd |-> "proxy_fetch_any", url |-> u, method |-> method, marker |-> marker,
   body |-> body, result |-> "pending"]
ProxyManifest(u) ==
  [cmd |-> "proxy_fetch_manifest", url |-> u, method |-> "absent", marker |-> "absent",
   body |-> "absent", result |-> "pending"]

\* the round trip in flight settles
Settle(ok) == [invoked EXCEPT ![Len(invoked)].result = IF ok THEN "ok" ELSE "failed"]

\* the x-mnd-bypass value the patched fetch reads: that of init.headers only
InitMarker(c) == IF c.markerIn = "init" THEN c.marker ELSE "none"

\* init?.method || 'GET', and init?.body, of a fetch call
InitMethod(c) == IF c.markerIn = "init" THEN c.method ELSE "GET"
InitBody(c) == IF c.markerIn = "init" THEN c.body ELSE "none"

\* window.fetch(input, init), up to its first await
FetchPatched ==
  /\ pc = "idle" /\ call.idiom = "fetch"
  /\ LET class == FetchClass(call.url, InitMarker(call))
         original == Original("originalFetch", call.url, call.method, call.marker, call.body)
     IN
     CASE class \in {"bypass", "pass_through"} ->
            /\ issued' = Append(issued, original)
            /\ seen' = Native /\ pc' = "done"
            /\ UNCHANGED invoked
       [] class = "forced_failure" ->
            /\ seen' = Observed("network_error", 0, "", FALSE) /\ pc' = "done"
            /\ UNCHANGED <<issued, invoked>>
       [] class = "tunnel_lookup" ->
            /\ invoked' = Append(invoked,
                 ProxyAny(InitMethod(call), call.url, InitMarker(call), InitBody(call)))
            /\ pc' = "awaiting"
            /\ UNCHANGED <<issued, seen>>
       [] class = "tunnel_manifest" ->
            /\ invoked' = Append(invoked, ProxyManifest(call.url))
            /\ pc' = "awaiting"
            /\ UNCHANGED <<issued, seen>>
  /\ UNCHANGED <<superseded, call, xhrTarget, xhrHeaders, readOnlyThrows, readyState, fired,
                 bridgeVars, netVars, fetchVars, healVars>>

\* the patched fetch after its invoke settled: the tunneled response, or in
\* the catch softJsonEmpty() (lookup) or originalFetch(input, init) (manifest)
FetchTunnelSettled ==
  /\ pc = "awaiting" /\ call.idiom = "fetch"
  /\ \E ok \in BOOLEAN :
       /\ invoked' = Settle(ok)
       /\ IF ok
            THEN /\ seen' = Observed("response", 200, "tunneled", FALSE)
                 /\ UNCHANGED issued
          ELSE IF Last(invoked).cmd = "proxy_fetch_any"
            THEN /\ seen' = SoftJsonEmpty
                 /\ UNCHANGED issued
          ELSE /\ issued' = Append(issued,
                    Original("originalFetch", call.url, call.method, call.marker, call.body))
               /\ seen' = Native
  /\ pc' = "done"
  /\ UNCHANGED <<superseded, call, xhrTarget, xhrHeaders, readOnlyThrows, readyState, fired,
                 bridgeVars, netVars, fetchVars, healVars>>

\* ProxyXHR.open: whether the call is intercepted
XhrIntercept(u) ==
  \/ IsHttpsManifest(u)
  \/ IsLookup(u) /\ (IsOverlayHost(HostOf(u)) \/ (IsHttps(u) /\ IsBackendHost(HostOf(u))))

NoTarget == [kind |-> "none", scheme |-> "", host |-> <<>>, path |-> <<>>]

\* ProxyXHR.open(method, url): super.open on the URL, or on about:blank when
\* the call is intercepted
XhrOpen ==
  /\ pc = "idle" /\ call.idiom = "xhr"
  /\ xhrHeaders' = {}
  /\ xhrTarget' = IF XhrIntercept(call.url) THEN AboutBlank ELSE call.url
  /\ pc' = "opened"
  /\ readyState' = 1
  /\ UNCHANGED <<superseded, call, issued, invoked, seen, readOnlyThrows, fired, bridgeVars, netVars,
                 fetchVars, healVars>>

\* ProxyXHR.setRequestHeader('x-mnd-bypass', value)
XhrSetRequestHeader ==
  /\ pc = "opened" /\ call.idiom = "xhr"
  /\ call.marker # "none"
  /\ <<"x-mnd-bypass", call.marker>> \notin xhrHeaders
  /\ xhrHeaders' = xhrHeaders \cup {<<"x-mnd-bypass", call.marker>>}
  /\ UNCHANGED <<superseded, call, pc, xhrTarget, issued, invoked, seen, readOnlyThrows, readyState,
                 fired, bridgeVars, netVars, fetchVars, healVars>>

\* the x-mnd-bypass value the underlying request carries
XhrMarker == IF xhrHeaders = {} THEN "none" ELSE call.marker

\* super.send(body) on the request super.open() prepared
SuperSend == Original("super.send", xhrTarget, call.method, XhrMarker, call.body)

\* fulfillWith: defines status, responseText and the header accessors, then
\* assigns readyState and fires readystatechange, load, loadend; when the
\* assignment throws, send() rejects and no event is fired
FulfillWith(status, body, softFail) ==
  Observed(IF readOnlyThrows THEN "rejected" ELSE "load", status, body, softFail)

\* `(this as any).readyState = 4`: what the caller reads afterwards
AssignReadyState(rs) == IF readOnlyThrows THEN readyState ELSE rs

\* one observer of the caller run on an event: a listener added with
\* addEventListener, or the function assigned to onload; by: the statement
\* that ran it; readyState, status, body: what it reads from the object
Delivery(type, to, by, rs, status, body) ==
  [type |-> type, to |-> to, by |-> by, readyState |-> rs, status |-> status,
   body |-> body]

\* this.dispatchEvent(new Event(type)): runs the listeners of that type and
\* the event handler attribute of that type (onload for load)
DispatchEvent(type, rs, status, body) ==
  <<Delivery(type, "listener", "dispatchEvent", rs, status, body)>> \o
  (IF type = "load" /\ call.onload
     THEN <<Delivery(type, "onload", "dispatchEvent", rs, status, body)>>
     ELSE <<>>)

\* the events of fulfillWith: readystatechange, load, the call of onload when
\* it is a function, loadend
FulfillEvents(status, body) ==
  IF readOnlyThrows THEN <<>>
  ELSE DispatchEvent("readystatechange", 4, status, body) \o
       DispatchEvent("load", 4, status, body) \o
       (IF call.onload THEN <<Delivery("load", "onload", "call", 4, status, body)>>
        ELSE <<>>) \o
       DispatchEvent("loadend", 4, status, body)

\* the events of send for an overlay /lookup: error, then loadend; status
\* is never defined
NetworkErrorEvents ==
  IF readOnlyThrows THEN <<>>
  ELSE DispatchEvent("error", 4, 0, "") \o DispatchEvent("loadend", 4, 0, "")

\* ProxyXHR.send(body), up to its first await
XhrSend ==
  /\ pc = "opened" /\ call.idiom = "xhr"
  /\ call.marker # "none" => xhrHeaders # {}
  /\ LET u == call.url
         h == HostOf(u)
     IN
     IF IsLookup(u) /\ IsOverlayHost(h)
       THEN /\ seen' = Observed(IF readOnlyThrows THEN "rejected" ELSE "network_error",
                                0, "", FALSE)
            /\ readyState' = AssignReadyState(4)
            /\ fired' = NetworkErrorEvents
            /\ pc' = "done"
            /\ UNCHANGED <<issued, invoked>>
     ELSE IF IsHttps(u) /\ IsLookup(u) /\ IsBackendHost(h)
       THEN /\ invoked' = Append(invoked,
                 ProxyAny(ToUpperCase(call.method), u, XhrMarker, call.body))
            /\ pc' = "awaiting"
            /\ UNCHANGED <<issued, seen, readyState, fired>>
     ELSE IF IsHttpsManifest(u)
       THEN /\ invoked' = Append(invoked, ProxyManifest(u))
            /\ pc' = "awaiting"
            /\ UNCHANGED <<issued, seen, readyState, fired>>
     ELSE /\ issued' = Append(issued, SuperSend)
          /\ seen' = Native /\ pc' = "done"
          /\ UNCHANGED <<invoked, readyState, fired>>
  /\ UNCHANGED <<superseded, call, xhrTarget, xhrHeaders, readOnlyThrows, bridgeVars, netVars,
                 fetchVars, healVars>>

\* ProxyXHR.send after its invoke settled: fulfillWith the tunneled result, or
\* in the catch fulfillWith the empty output list (lookup) or super.send(body)
\* (manifest)
XhrTunnelSettled ==
  /\ pc = "awaiting" /\ call.idiom = "xhr"
  /\ \E ok \in BOOLEAN :
       /\ invoked' = Settle(ok)
       /\ IF ok
            THEN /\ seen' = FulfillWith(200, "tunneled", FALSE)
                 /\ readyState' = AssignReadyState(4)
                 /\ fired' = FulfillEvents(200, "tunneled")
                 /\ UNCHANGED issued
          ELSE IF Last(invoked).cmd = "proxy_fetch_any"
            THEN /\ seen' = FulfillWith(200, "empty_output_list", TRUE)
                 /\ readyState' = AssignReadyState(4)
                 /\ fired' = FulfillEvents(200, "empty_output_list")
                 /\ UNCHANGED issued
          ELSE /\ issued' = Append(issued, SuperSend)
               /\ seen' = Native
               /\ UNCHANGED <<readyState, fired>>
  /\ pc' = "done"
  /\ UNCHANGED <<superseded, call, xhrTarget, xhrHeaders, readOnlyThrows, bridgeVars, netVars,
                 fetchVars, healVars>>

\* xhr.abort() while the round trip of send() is in flight. ProxyXHR does not
\* override abort: the inherited one acts on the request super.open()
\* prepared, which was never sent, and send() keeps waiting for its invoke
XhrAbort ==
  /\ pc = "awaiting" /\ call.idiom = "xhr"
  /\ superseded = "no"
  /\ superseded' = "aborted"
  /\ UNCHANGED <<call, pc, xhrTarget, xhrHeaders, issued, invoked, seen, readOnlyThrows,
                 readyState, fired, bridgeVars, netVars, fetchVars, healVars>>

\* xhr.open(method, u) on the same object while the round trip of send() is
\* in flight: __mnd_url and __mnd_headers are reset and super.open is called
\* again; send() keeps waiting for its invoke, with the URL it read before
XhrReopen(u) ==
  /\ pc = "awaiting" /\ call.idiom = "xhr"
  /\ superseded = "no"
  /\ u # call.url
  /\ superseded' = "reopened"
  /\ xhrHeaders' = {}
  /\ xhrTarget' = IF XhrIntercept(u) THEN AboutBlank ELSE u
  /\ readyState' = 1
  /\ UNCHANGED <<call, pc, issued, invoked, seen, readOnlyThrows, fired, bridgeVars,
                 netVars, fetchVars, healVars>>

----------------------------------------------------------------------------
(* The health watchdog: src/mndHeal.ts *)

CRITICAL_ENDPOINTS == <<"/wallet-proxy/health", "/.well-known/auth/health", "/api/getVersion">>
RELOAD_AFTER_TOTAL_MS == 20000
PER_TRY_TIMEOUT_MS == 3000
MAX_RETRIES_PER_URL == 4

Min(a, b) == IF a <= b THEN a ELSE b

RECURSIVE Pow2(_)
Pow2(k) == IF k = 0 THEN 1 ELSE 2 * Pow2(k - 1)

\* the delay doubling without a cap
DelayUncapped(attempt) == 500 * Pow2(attempt)

\* retryPing: Math.min(500 * Math.pow(2, attempt), 4000)
Delay(attempt) == Min(500 * Pow2(attempt), 4000)

\* pingOnce(url): what a probe comes to and how long it takes: "ok", "fail"
\* (an error or a status that is not ok, at once) or "timeout" (the abort
\* after PER_TRY_TIMEOUT_MS)
PingMs(outcome) == IF outcome = "timeout" THEN PER_TRY_TIMEOUT_MS ELSE 0

\* pingOnce(url) on a probe that comes to `outcome`: one fetch, true only
\* when it is answered with an ok status
PingOnce(outcome) == [ok |-> outcome = "ok", ms |-> PingMs(outcome), attempts |-> 1]

\* what the probes of a startMndHeal() call come to, endpoint by endpoint
StartProbes ==
  { <<"ok", "ok", "ok">>, <<"fail", "ok", "ok">>, <<"ok", "ok", "timeout">>,
    <<"fail", "timeout", "fail">> }

\* CRITICAL_ENDPOINTS.map(u => pingOnce(u))
StartCall(outcomes) == [i \in DOMAIN CRITICAL_ENDPOINTS |-> PingOnce(outcomes[i])]

\* what the probes of one endpoint come to, attempt by attempt
Down == [a \in 0..MAX_RETRIES_PER_URL |-> "fail"]
Hangs == [a \in 0..MAX_RETRIES_PER_URL |-> "timeout"]
UpAfter(k) == [a \in 0..MAX_RETRIES_PER_URL |-> IF a < k THEN "fail" ELSE "ok"]
Endpoints == {Down, UpAfter(2)}

\* retryPing(url) from `attempt` on, `ms` after it was called, on an endpoint
\* whose probes come to `probes`: its result and when it returns. A failed
\* probe is followed by sleep(delay), also after the last attempt.
RECURSIVE RetryPing(_, _, _)
RetryPing(probes, attempt, ms) ==
  IF attempt > MAX_RETRIES_PER_URL THEN [ok |-> FALSE, ms |-> ms]
  ELSE IF probes[attempt] = "ok" THEN [ok |-> TRUE, ms |-> ms + PingMs("ok")]
  ELSE RetryPing(probes, attempt + 1, ms + PingMs(probes[attempt]) + Delay(attempt))

\* retryPing(url), statement by statement. pc: "idle" before the call, "loop"
\* at the loop test, "sleep" in `await sleep(delay)`, "done" after return;
\* pings: the pingOnce calls made; delays: the sleeps begun; ms: since the call
RetryCall(at, attempt, pings, delays, ms, result) ==
  [pc |-> at, attempt |-> attempt, pings |-> pings, delays |-> delays, ms |-> ms,
   result |-> result]

NotCalled == RetryCall("idle", 0, 0, <<>>, 0, "none")

\* the scripts of an endpoint
ProbeScripts == [0..MAX_RETRIES_PER_URL -> {"ok", "fail", "timeout"}]

\* `let attempt = 0`
RetryPingCall ==
  /\ rp.pc = "idle"
  /\ rp' = [rp EXCEPT !.pc = "loop", !.attempt = 0]
  /\ UNCHANGED <<script, probe, page, loads, starting, listeners, dogs, banner, online, reloadLog,
                 now, bridgeVars, storageNet, lastNet, lastNetAt, lastSet, rateStore, fetchVars,
                 proxyVars>>

\* retryPing going on probing after a probe succeeded
RetryPingLoopKeepsOn ==
  /\ rp.pc = "loop"
  /\ IF rp.attempt <= MAX_RETRIES_PER_URL
       THEN rp' = [rp EXCEPT !.pc = "sleep", !.pings = @ + 1,
                             !.ms = @ + PingOnce(script[rp.attempt]).ms,
                             !.delays = Append(@, Delay(rp.attempt))]
       ELSE rp' = [rp EXCEPT !.pc = "done", !.result = "false"]
  /\ UNCHANGED <<script, probe, page, loads, starting, listeners, dogs, banner, online, reloadLog,
                 now, bridgeVars, storageNet, lastNet, lastNetAt, lastSet, rateStore, fetchVars,
                 proxyVars>>

\* the loop test, and in the loop `if (await pingOnce(url)) return true`,
\* else the delay is computed and the sleep begins; after the loop
\* `return false`
RetryPingLoop ==
  /\ rp.pc = "loop"
  /\ IF rp.attempt <= MAX_RETRIES_PER_URL
       THEN LET ping == PingOnce(script[rp.attempt]) IN
            IF ping.ok
              THEN rp' = [rp EXCEPT !.pc = "done", !.pings = @ + 1, !.ms = @ + ping.ms,
                                    !.result = "true"]
              ELSE rp' = [rp EXCEPT !.pc = "sleep", !.pings = @ + 1, !.ms = @ + ping.ms,
                                    !.delays = Append(@, Delay(rp.attempt))]
       ELSE rp' = [rp EXCEPT !.pc = "done", !.result = "false"]
  /\ UNCHANGED <<script, probe, page, loads, starting, listeners, dogs, banner, online, reloadLog,
                 now, bridgeVars, storageNet, lastNet, lastNetAt, lastSet, rateStore, fetchVars,
                 proxyVars>>

\* the sleep is over: `attempt++`, back to the loop test
RetryPingSlept ==
  /\ rp.pc = "sleep"
  /\ rp' = [rp EXCEPT !.pc = "loop", !.attempt = @ + 1, !.ms = @ + Last(rp.delays)]
  /\ UNCHANGED <<script, probe, page, loads, starting, listeners, dogs, banner, online, reloadLog,
                 now, bridgeVars, storageNet, lastNet, lastNetAt, lastSet, rateStore, fetchVars,
                 proxyVars>>

\* pingOnce(url), statement by statement. answer: what the server does with
\* the request (an ok status, another status, or a network error) and when,
\* in ms after the call; pc: "idle" before the call, "fetching" in
\* `await fetchWithTimeout(...)`, "done" after return; timer: the setTimeout
\* of fetchWithTimeout; aborted: controller.abort('timeout') ran; late: the
\* answer came to a fetch already aborted; at: when pingOnce returned
Answer(kind, at) == [kind |-> kind, at |-> at]

PingCallOf(answer) ==
  [answer |-> answer, pc |-> "idle", ms |-> 0, timer |-> "none", aborted |-> FALSE,
   late |-> FALSE, result |-> "none", at |-> 0]

NoPing == PingCallOf(Answer("error", 0))

\* when the answers come
AnswerTimes == {0, 500, 1000, 2000, 2999, 3000, 3001, 4000, 6000}
Answers == {Answer(k, t) : k \in {"ok", "status", "error"}, t \in AnswerTimes}

\* fetchWithTimeout: new AbortController(), setTimeout(abort, timeoutMs),
\* fetch(input, {...init, signal})
FetchWithTimeout ==
  /\ probe.pc = "idle"
  /\ probe' = [probe EXCEPT !.pc = "fetching", !.timer = "armed"]
  /\ UNCHANGED <<script, rp, page, loads, starting, listeners, dogs, banner, online, reloadLog,
                 now, bridgeVars, storageNet, lastNet, lastNetAt, lastSet, rateStore, fetchVars,
                 proxyVars>>

\* time passes until the answer or the timer is due, whichever is first
PingWait ==
  /\ probe.pc = "fetching"
  /\ probe.ms < Min(probe.answer.at, PER_TRY_TIMEOUT_MS)
  /\ probe' = [probe EXCEPT !.ms = Min(probe.answer.at, PER_TRY_TIMEOUT_MS)]
  /\ UNCHANGED <<script, rp, page, loads, starting, listeners, dogs, banner, online, reloadLog,
                 now, bridgeVars, storageNet, lastNet, lastNetAt, lastSet, rateStore, fetchVars,
                 proxyVars>>

\* the fetch settles with the answer: .finally clears the timer; pingOnce
\* returns true on an ok status, false on another status or on an error
PingAnswered ==
  /\ probe.pc = "fetching"
  /\ probe.ms = probe.answer.at
  /\ probe' = [probe EXCEPT !.pc = "done", !.timer = "cleared", !.at = probe.ms,
                          !.result = IF probe.answer.kind = "ok" THEN "true" ELSE "false"]
  /\ UNCHANGED <<script, rp, page, loads, starting, listeners, dogs, banner, online, reloadLog,
                 now, bridgeVars, storageNet, lastNet, lastNetAt, lastSet, rateStore, fetchVars,
                 proxyVars>>

\* the timer fires: controller.abort('timeout') rejects the fetch, and the
\* catch of pingOnce returns false
PingTimeout ==
  /\ probe.pc = "fetching"
  /\ probe.timer = "armed"
  /\ probe.ms = PER_TRY_TIMEOUT_MS
  /\ probe' = [probe EXCEPT !.pc = "done", !.timer = "fired", !.aborted = TRUE,
                          !.at = probe.ms, !.result = "false"]
  /\ UNCHANGED <<script, rp, page, loads, starting, listeners, dogs, banner, online, reloadLog,
                 now, bridgeVars, storageNet, lastNet, lastNetAt, lastSet, rateStore, fetchVars,
                 proxyVars>>

\* an answer to an aborted fetch turning the probe into what it says
PingLateApplied ==
  /\ probe.pc = "done" /\ probe.aborted /\ ~probe.late
  /\ probe' = [probe EXCEPT !.late = TRUE, !.ms = probe.answer.at,
                          !.result = IF probe.answer.kind = "ok" THEN "true" ELSE "false"]
  /\ UNCHANGED <<script, rp, page, loads, starting, listeners, dogs, banner, online, reloadLog,
                 now, bridgeVars, storageNet, lastNet, lastNetAt, lastSet, rateStore, fetchVars,
                 proxyVars>>

\* the server answers a fetch that was aborted: its promise is already
\* rejected and pingOnce has returned; nothing of the answer is used
PingLateAnswer ==
  /\ probe.pc = "done" /\ probe.aborted /\ ~probe.late
  /\ probe' = [probe EXCEPT !.late = TRUE, !.ms = probe.answer.at]
  /\ UNCHANGED <<script, rp, page, loads, starting, listeners, dogs, banner, online, reloadLog,
                 now, bridgeVars, storageNet, lastNet, lastNetAt, lastSet, rateStore, fetchVars,
                 proxyVars>>

\* the watchdog asking for every endpoint to be healthy
SomeOkAll(results) == \A i \in DOMAIN results : results[i].ok

\* results.some(Boolean)
SomeOk(results) == \E i \in DOMAIN results : results[i].ok

\* startMndHeal content with one healthy endpoint
EveryOkAny(results) == \E i \in DOMAIN results : results[i].ok

\* results.every(Boolean), the test of startMndHeal
EveryOk(results) == \A i \in DOMAIN results : results[i].ok

\* when the first retryPing of a round returned true (0: none did)
FirstOkMs(results) ==
  LET oks == {results[i].ms : i \in {j \in DOMAIN results : results[j].ok}} IN
  IF oks = {} THEN 0 ELSE CHOOSE m \in oks : \A n \in oks : m <= n

\* Promise.all: settled when the last of the promises is
AllSettledMs(results) ==
  CHOOSE m \in {results[i].ms : i \in DOMAIN results} :
    \A i \in DOMAIN results : results[i].ms <= m

\* await Promise.all(CRITICAL_ENDPOINTS.map(u => retryPing(u))): what a round
\* of the watchdog can come to: whether the watchdog takes it as healthy, when
\* it is over, whether any probe in it succeeded, and when the first
\* endpoint reported healthy
Rounds ==
  { LET r == [i \in DOMAIN e |-> RetryPing(e[i], 0, 0)] IN
    [healthy |-> SomeOk(r), ms |-> AllSettledMs(r),
     anyOk |-> \E i \in DOMAIN e : \E a \in DOMAIN e[i] : e[i][a] = "ok",
     firstOkMs |-> FirstOkMs(r)] :
      e \in [DOMAIN CRITICAL_ENDPOINTS -> Endpoints] }

\* ensureBanner and updateBanner: the text of the banner afterwards
EnsureBanner(b) == IF b = "none" THEN "Reconnecting to local wallet" ELSE b
UpdateBanner(b, msg) == IF b = "none" THEN b ELSE msg

\* a watchdog() that has returned, the endpoints being healthy
Returned(d) ==
  [start |-> 0, phase |-> "healthy", wake |-> 0, healthy |-> TRUE, sawOk |-> d.sawOk,
   okAt |-> 0]

\* the loop of watchdog() giving up at once
WithinBudgetNever(start, t) == FALSE

\* the loop test of watchdog(): Date.now() - start < RELOAD_AFTER_TOTAL_MS
WithinBudget(start, t) == t - start < RELOAD_AFTER_TOTAL_MS

\* a watchdog() suspended at Promise.all of a round that began now
Probing(start, round, sawOk) ==
  [start |-> start, phase |-> "probing", wake |-> now + round.ms,
   healthy |-> round.healthy, sawOk |-> sawOk \/ round.anyOk,
   okAt |-> IF round.healthy THEN now + round.firstOkMs ELSE 0]

\* what the heal actions leave alone
NotHeal == <<bridgeVars, storageNet, lastNet, lastNetAt, lastSet, rateStore, fetchVars,
             proxyVars, retryVars>>

\* the document loads and the application calls startMndHeal(), which starts
\* one probe per critical endpoint and awaits them
PageLoad ==
  /\ page = "loading"
  /\ loads < MaxLoads
  /\ page' = "live"
  /\ loads' = loads + 1
  /\ \E outcomes \in StartProbes : starting' = <<StartCall(outcomes)>>
  /\ UNCHANGED <<listeners, dogs, banner, online, reloadLog, now, NotHeal>>

\* startMndHeal() after its probes settled: unless all succeeded it starts
\* watchdog(), which runs up to the Promise.all of its first round; then it
\* adds its 'online' and 'offline' listeners
StartMndHeal ==
  /\ page = "live"
  /\ starting # <<>>
  /\ starting' = Tail(starting)
  /\ LET results == Head(starting) IN
     IF EveryOk(results)
       THEN UNCHANGED <<dogs, banner>>
       ELSE \E round \in Rounds :
              /\ dogs' = Append(dogs, Probing(now, round, FALSE))
              /\ banner' = UpdateBanner(EnsureBanner(banner), "Reconnecting to local wallet")
  /\ listeners' = listeners + 1
  /\ UNCHANGED <<page, loads, online, reloadLog, now, NotHeal>>

\* watchdog() i after the Promise.all of its round: healthy, or sleep(1000)
RoundEnd(i) ==
  /\ page = "live"
  /\ i \in DOMAIN dogs
  /\ dogs[i].phase = "probing" /\ dogs[i].wake = now
  /\ IF dogs[i].healthy
       THEN /\ banner' = "none"
            /\ dogs' = [dogs EXCEPT ![i] = Returned(dogs[i])]
       ELSE /\ banner' = UpdateBanner(banner, "Still reconnecting")
            /\ dogs' = [dogs EXCEPT ![i].phase = "sleeping", ![i].wake = now + 1000]
  /\ UNCHANGED <<page, loads, starting, listeners, online, reloadLog, now, NotHeal>>

\* watchdog() i after its sleep, the loop test holding: the next round
NextRound(i) ==
  /\ page = "live"
  /\ i \in DOMAIN dogs
  /\ dogs[i].phase = "sleeping" /\ dogs[i].wake = now
  /\ WithinBudget(dogs[i].start, now)
  /\ \E round \in Rounds :
       dogs' = [dogs EXCEPT ![i] = Probing(dogs[i].start, round, dogs[i].sawOk)]
  /\ banner' = UpdateBanner(banner, "Reconnecting to local wallet")
  /\ UNCHANGED <<page, loads, starting, listeners, online, reloadLog, now, NotHeal>>

\* watchdog() i after its sleep, the loop test failing: location.replace,
\* which ends the document and all that runs in it
Reload(i) ==
  /\ page = "live"
  /\ i \in DOMAIN dogs
  /\ dogs[i].phase = "sleeping" /\ dogs[i].wake = now
  /\ ~WithinBudget(dogs[i].start, now)
  /\ reloadLog' = Append(reloadLog, [load |-> loads, dog |-> i, start |-> dogs[i].start,
                                     at |-> now, sawOk |-> dogs[i].sawOk])
  /\ page' = "loading"
  /\ starting' = <<>> /\ listeners' = 0 /\ dogs' = <<>> /\ banner' = "none"
  /\ UNCHANGED <<loads, online, now, NotHeal>>

\* the watchdogs waiting for a timer or a probe
Waiting == {i \in DOMAIN dogs : dogs[i].phase \in {"probing", "sleeping"}}

\* time passes until the next thing a watchdog waits for is due
Advance ==
  /\ page = "live"
  /\ Waiting # {}
  /\ \A i \in Waiting : dogs[i].wake > now
  /\ now' = CHOOSE t \in {dogs[i].wake : i \in Waiting} : \A i \in Waiting : t <= dogs[i].wake
  /\ UNCHANGED <<healVars, NotHeal>>

\* the window's 'online' event, fired when the network comes back: every
\* 'online' listener added so far calls startMndHeal()
OnlineEvent ==
  /\ page = "live"
  /\ ~online
  /\ online' = TRUE
  /\ Len(dogs) + Len(starting) + listeners <= MaxWatchdogs
  /\ \E outcomes \in [1..listeners -> StartProbes] :
       starting' = starting \o [k \in 1..listeners |-> StartCall(outcomes[k])]
  /\ UNCHANGED <<page, loads, listeners, dogs, banner, reloadLog, now, NotHeal>>

\* the window's 'offline' event, fired when the network goes away: every
\* 'offline' listener added so far runs ensureBanner(); updateBanner('Offline…')
OfflineEvent ==
  /\ page = "live"
  /\ online
  /\ online' = FALSE
  /\ banner' = IF listeners > 0 THEN UpdateBanner(EnsureBanner(banner), "Offline")
                ELSE banner
  /\ UNCHANGED <<page, loads, starting, listeners, dogs, reloadLog, now, NotHeal>>

----------------------------------------------------------------------------
(* Specifications *)

\* localStorage['mnd.exrate'] and ['mnd.exrate_at']: has: the value is a
\* non-empty string; parses: JSON.parse takes it; value: what it parses to;
\* at: Number() of the timestamp, 0 when it is absent, empty or not a number
RateStore(has, parses, value, at) ==
  [has |-> has, parses |-> parses, value |-> value, at |-> at]

NoRate == RateStore(FALSE, FALSE, "none", 0)

\* the cached rates: absent, not JSON, an object or a number; written at
\* StartNow, later, or without a timestamp
RateStores ==
  { r \in [has : BOOLEAN, parses : BOOLEAN, value : {"none", "object", "number"},
           at : {0, StartNow, StartNow + TickMs}] :
      /\ r.parses => r.has
      /\ (r.value # "none") <=> r.parses }

\* Date.now() when /exchangerate is handled
RateClock ==
  { StartNow, StartNow + TickMs, StartNow + RATE_TTL_MS - 1, StartNow + RATE_TTL_MS,
    StartNow + RATE_TTL_MS + TickMs }

InitBridge ==
  /\ httpBridgeStarted = FALSE
  /\ stop = FALSE
  /\ bgStarting = 0
  /\ bgListeners = 0
  /\ capListeners = 0
  /\ events = <<>>
  /\ capInbox = <<>>
  /\ bgInbox = <<>>
  /\ capSeen = {}
  /\ bgSeen = {}
  /\ capTasks = {}
  /\ walletCalls = {}
  /\ responses = <<>>
  /\ emitFailed = {}

\* module load of httpBridge.ts: lastNetAt = 0, lastNet = readNet()
InitNetMode(values) ==
  /\ storageNet \in values
  /\ lastNet = ReadNet(storageNet, FALSE)
  /\ lastNetAt = 0
  /\ now = StartNow
  /\ lastSet = NoSet
  /\ rateStore = NoRate

InitFetchIdle ==
  /\ url = BadUrl
  /\ verdict = NoVerdict

\* mndHeal.ts is loaded and startMndHeal has not been called
InitHealIdle ==
  /\ page = "loading" /\ loads = 0
  /\ starting = <<>> /\ listeners = 0
  /\ dogs = <<>> /\ banner = "none" /\ online = TRUE
  /\ reloadLog = <<>>
  /\ script = Down /\ rp = NotCalled /\ probe = NoPing

\* no outbound call is made
InitProxyIdle ==
  /\ call = NoCall /\ pc = "idle"
  /\ xhrTarget = NoTarget /\ xhrHeaders = {}
  /\ issued = <<>> /\ invoked = <<>>
  /\ seen = Pending
  /\ readOnlyThrows = TRUE
  /\ readyState = 0 /\ fired = <<>> /\ superseded = "no"

\* the two bridges on the http-request channel
Init == InitBridge /\ InitNetMode({"null"}) /\ InitFetchIdle /\ InitProxyIdle /\ InitHealIdle

Next ==
  \/ MainStartHttpBridge
  \/ BgListenResolved
  \/ OnWalletReady
  \/ \E req \in HostRequests : HostEmit(req)
  \/ \E n \in DOMAIN events : HostForget(n)
  \/ \E n \in DOMAIN events : CapReceive(n)
  \/ \E t \in capTasks : CapWalletDone(t)
  \/ \E n \in DOMAIN events : BgReceive(n)

Spec == Init /\ [][Next]_vars

\* the capability bridge alone
NextCap ==
  \/ OnWalletReady
  \/ \E req \in CapRequests : HostEmit(req)
  \/ \E n \in DOMAIN events : HostForget(n)
  \/ \E n \in DOMAIN events : CapReceive(n)
  \/ \E t \in capTasks : CapWalletDone(t)

SpecCap == Init /\ [][NextCap]_vars

\* the capability bridge with requests that overlap
NextConc ==
  \/ OnWalletReady
  \/ \E req \in ConcRequests : HostEmitConcurrent(req)
  \/ \E n \in DOMAIN events : CapReceive(n)
  \/ \E t \in capTasks : CapWalletDone(t)

SpecConc == Init /\ [][NextConc]_vars

\* the background bridge alone
NextBg ==
  \/ MainStartHttpBridge
  \/ BgListenResolved
  \/ \E req \in BgRequests : HostEmit(req)
  \/ \E n \in DOMAIN events : HostForget(n)
  \/ \E n \in DOMAIN events : BgReceive(n)

SpecBg == Init /\ [][NextBg]_vars

\* the background bridge alone, startHttpBridge() being called by any module
StartRequests ==
  { Request("GET", p, GoodOrigin, "", TRUE) : p \in {"/bridge/ready", "/getStatus", "/nope"} }
  \cup { Malformed }

NextStart ==
  \/ MainStartHttpBridge
  \/ StartHttpBridge
  \/ BgListenResolved
  \/ \E req \in StartRequests : HostEmit(req)
  \/ \E n \in DOMAIN events : HostForget(n)
  \/ \E n \in DOMAIN events : BgReceive(n)

SpecStart == Init /\ [][NextStart]_vars

\* the background bridge alone, with the clock and the persisted network mode
InitNet == InitBridge /\ InitNetMode(StorageValues) /\ InitFetchIdle /\ InitProxyIdle /\ InitHealIdle

NextNet_ ==
  \/ MainStartHttpBridge
  \/ BgListenResolved
  \/ \E req \in NetRequests : HostEmit(req)
  \/ \E n \in DOMAIN events : HostForget(n)
  \/ \E n \in DOMAIN events : BgReceive(n)
  \/ Tick

SpecNet == InitNet /\ [][NextNet_]_vars

\* the background bridge alone, on every cached rate
InitRate ==
  /\ InitBridge /\ InitFetchIdle /\ InitProxyIdle /\ InitHealIdle
  /\ storageNet = "null"
  /\ lastNet = ReadNet(storageNet, FALSE)
  /\ lastNetAt = 0
  /\ now \in RateClock
  /\ lastSet = NoSet
  /\ rateStore \in RateStores

RateRequests ==
  { Request(m, p, GoodOrigin, "", TRUE) :
      m \in {"GET", "POST"}, p \in {"/exchangerate", "/exchangerate?pair=1", "/getStatus"} }

NextRate ==
  \/ MainStartHttpBridge
  \/ BgListenResolved
  \/ \E req \in RateRequests : HostEmit(req)
  \/ \E n \in DOMAIN events : HostForget(n)
  \/ \E n \in DOMAIN events : BgReceive(n)

SpecRate == InitRate /\ [][NextRate]_vars

\* one outbound call through the patched window.fetch
InitFetch ==
  /\ InitBridge /\ InitNetMode({"null"}) /\ InitProxyIdle /\ InitHealIdle
  /\ url \in FetchUrls
  /\ verdict = NoVerdict

NextFetch == FetchCall

SpecFetch == InitFetch /\ [][NextFetch]_vars

\* one outbound call through the patched window.fetch or through ProxyXHR
InitProxy ==
  /\ InitBridge /\ InitNetMode({"null"}) /\ InitFetchIdle /\ InitHealIdle
  /\ call \in ProxyCalls /\ pc = "idle"
  /\ xhrTarget = NoTarget /\ xhrHeaders = {}
  /\ issued = <<>> /\ invoked = <<>>
  /\ seen = Pending
  /\ readOnlyThrows \in BOOLEAN
  /\ readyState = 0 /\ fired = <<>> /\ superseded = "no"

NextProxy ==
  \/ FetchPatched
  \/ FetchTunnelSettled
  \/ XhrOpen
  \/ XhrSetRequestHeader
  \/ XhrSend
  \/ XhrTunnelSettled

SpecProxy == InitProxy /\ [][NextProxy]_vars

\* one outbound call, a legacy request being aborted or re-opened in flight
ReopenUrls ==
  { Url("https", ExampleCom, <<"api">>), Url("https", FooProjects, <<"lookup">>) }

NextAbort ==
  \/ NextProxy
  \/ XhrAbort
  \/ \E u \in ReopenUrls : XhrReopen(u)

SpecAbort == InitProxy /\ [][NextAbort]_vars

\* the watchdog over the page loads
InitHeal == Init

HealSteps ==
  \/ PageLoad
  \/ StartMndHeal
  \/ \E i \in 1..MaxWatchdogs : RoundEnd(i)
  \/ \E i \in 1..MaxWatchdogs : NextRound(i)
  \/ \E i \in 1..MaxWatchdogs : Reload(i)
  \/ Advance

NextHeal ==
  \/ HealSteps
  \/ OnlineEvent
  \/ OfflineEvent

\* the event loop runs every continuation and timer that is due
SpecHeal == InitHeal /\ [][NextHeal]_vars /\ WF_vars(HealSteps)

\* one retryPing(url) call, on every script of an endpoint
InitRetry ==
  /\ InitBridge /\ InitNetMode({"null"}) /\ InitFetchIdle /\ InitProxyIdle
  /\ page = "loading" /\ loads = 0
  /\ starting = <<>> /\ listeners = 0
  /\ dogs = <<>> /\ banner = "none" /\ online = TRUE
  /\ reloadLog = <<>>
  /\ script \in ProbeScripts /\ rp = NotCalled /\ probe = NoPing

NextRetry ==
  \/ RetryPingCall
  \/ RetryPingLoop
  \/ RetryPingSlept

\* every probe settles (pingOnce never throws and its fetch is aborted after
\* PER_TRY_TIMEOUT_MS) and every timer fires
SpecRetry == InitRetry /\ [][NextRetry]_vars /\ WF_vars(NextRetry)

\* one pingOnce(url) call, on every answer
InitPing ==
  /\ InitBridge /\ InitNetMode({"null"}) /\ InitFetchIdle /\ InitProxyIdle
  /\ page = "loading" /\ loads = 0
  /\ starting = <<>> /\ listeners = 0
  /\ dogs = <<>> /\ banner = "none" /\ online = TRUE
  /\ reloadLog = <<>>
  /\ script = Down /\ rp = NotCalled
  /\ probe \in {PingCallOf(a) : a \in Answers}

NextPing ==
  \/ FetchWithTimeout
  \/ PingWait
  \/ PingAnswered
  \/ PingTimeout
  \/ PingLateAnswer

SpecPing == InitPing /\ [][NextPing]_vars

\* the watchdog in one document, up to its reload
FirstLoad == loads = 0 /\ PageLoad

WatchdogSteps ==
  \/ FirstLoad
  \/ StartMndHeal
  \/ \E i \in 1..MaxWatchdogs : RoundEnd(i)
  \/ \E i \in 1..MaxWatchdogs : NextRound(i)
  \/ \E i \in 1..MaxWatchdogs : Reload(i)
  \/ Advance

NextWatchdog ==
  \/ WatchdogSteps
  \/ OnlineEvent
  \/ OfflineEvent

SpecWatchdog == InitHeal /\ [][NextWatchdog]_vars /\ WF_vars(WatchdogSteps)

----------------------------------------------------------------------------
(* Properties of the two bridges *)

\* the positions in responses of the replies listener `by` emitted for event n
RepliesOf(n, by) == {i \in 1..Len(responses) : responses[i].ev = n /\ responses[i].by = by}
AllRepliesTo(n) == {i \in 1..Len(responses) : responses[i].ev = n}

\* the status endpoints of the background bridge, as (method, path)
StatusEndpoints ==
  { <<"GET", "/bridge/ready">>, <<"GET", "/getNetwork">>, <<"POST", "/getNetwork">>,
    <<"POST", "/setNetwork">>, <<"GET", "/exchangerate">>, <<"GET", "/getStatus">>,
    <<"POST", "/getStatus">> }

\* request n names none of the status endpoints
Unmatched(n) ==
  /\ events[n].json
  /\ <<NormalizeReq(n).method, Pathname(NormalizeReq(n).path)>> \notin StatusEndpoints

\* C1: every event delivered to the capability listener whose payload parses
\* and whose path is an operation path gets, once the listener has finished
\* with it, exactly one reply carrying its request_id (no emit having failed).
C1_ExactlyOneReply ==
  \A n \in DOMAIN events :
    (CapDone(n) /\ events[n].json /\ events[n].path \in CapPaths /\ n \notin emitFailed)
      => Cardinality({i \in RepliesOf(n, "cap") : responses[i].id = RawId(n)}) = 1

\* C2: with both listeners registered, a request both have finished with has
\* exactly one reply in total (no emit having failed).
C2_OneReplyInTotal ==
  \A n \in DOMAIN events :
    (CapDone(n) /\ BgDone(n) /\ n \notin emitFailed)
      => Cardinality(AllRepliesTo(n)) = 1

\* C3: an event whose payload is malformed JSON or has no request_id is
\* answered by the capability listener that received it (no emit having failed).
C3_MalformedAnswered ==
  \A n \in DOMAIN events :
    (CapDone(n) /\ (~events[n].json \/ ~events[n].hasId) /\ n \notin emitFailed)
      => RepliesOf(n, "cap") # {}

\* C4: when the capability listener throws while handling a parsed request,
\* it still emits exactly one reply for it: status 200, the fallback body,
\* the request's request_id (no emit having failed).
C4_UncaughtStillAnswered ==
  \A n \in DOMAIN events :
    (CapDone(n) /\ events[n].json /\ CapThrows(events[n]) /\ n \notin emitFailed)
      => /\ Cardinality(RepliesOf(n, "cap")) = 1
         /\ \A i \in RepliesOf(n, "cap") :
              /\ responses[i].status = 200
              /\ responses[i].body = Body("bridge_fallback")
              /\ responses[i].id = RawId(n)

\* C5, as claimed: every reply carries the request_id received in the request
\* it answers.
C5_IdReceivedAndEchoed ==
  \A i \in 1..Len(responses) :
    /\ events[responses[i].ev].json
    /\ events[responses[i].ev].hasId
    /\ responses[i].id = Id(responses[i].ev)

\* C5, amended: every reply to a request whose payload parses and carries a
\* request_id carries that request_id; a reply to a payload that does not
\* parse or carries none has request_id 0 (background bridge) or no
\* request_id (capability bridge).
C5_IdEchoedWhenReceived ==
  \A i \in 1..Len(responses) :
    LET r == responses[i] IN
    IF events[r.ev].json /\ events[r.ev].hasId
      THEN r.id = Id(r.ev)
      ELSE r.id = (IF r.by = "bg" THEN Id(0) ELSE NoId)

\* both bridges have answered a request that carries a request_id
C5_Witness ==
  \E i, j \in 1..Len(responses) :
    /\ events[responses[i].ev].json /\ events[responses[i].ev].hasId
    /\ responses[i].by = "cap" /\ responses[i].id = Id(responses[i].ev)
    /\ responses[j].by = "bg" /\ responses[j].id = Id(responses[j].ev)
    /\ responses[j].ev = responses[i].ev

\* C6: a reply of the capability bridge has status 404 exactly when the path
\* of its request is not an operation path, and then its body is the
\* unknown-path body.
C6_NotFoundIffUnmatched ==
  \A i \in 1..Len(responses) :
    LET r == responses[i] IN
    r.by = "cap" =>
      /\ r.status = 404 <=> events[r.ev].path \notin CapPaths
      /\ events[r.ev].path \notin CapPaths => r.body = Body("unknown_path")

\* C7: no reply of the background bridge has status 404, and the reply to a
\* request that names none of the status endpoints has status 200, the reply
\* handle() built for it having the body {ok:true}.
C7_NeverNotFound ==
  \A i \in 1..Len(responses) :
    LET r == responses[i] IN
    r.by = "bg" =>
      /\ r.status # 404
      /\ Unmatched(r.ev) =>
           /\ r.status = 200
           /\ r.body \in {Body("ok_true"), Body("bridge_fallback")}
           /\ r.via = "handle" => r.body = Body("ok_true")

\* the background bridge has answered {ok:true} to a request that names none
\* of its endpoints
C7_Witness ==
  \E i \in 1..Len(responses) :
    /\ responses[i].by = "bg"
    /\ Unmatched(responses[i].ev)
    /\ responses[i].status = 200
    /\ responses[i].body = Body("ok_true")

\* the bodies of a /setNetwork request whose network is neither main nor test
InvalidNetBodies == {"{network:bogus}", "{network:}", "", "not json"}

\* this step is the background listener running on the oldest event it holds
BgStep == bgInbox # <<>> /\ bgInbox' = Tail(bgInbox)
BgStepOn(method, path) ==
  /\ BgStep
  /\ events[Head(bgInbox)].json
  /\ events[Head(bgInbox)].method = method
  /\ events[Head(bgInbox)].path = path

\* the reply handle() built was emitted in this step
Replied == Len(responses') = Len(responses) + 1 /\ Last(responses').via = "handle"

\* C8: a POST /setNetwork whose network is neither main nor test is answered
\* 400 and leaves the stored mode and the cached mode as they were.
C8_InvalidSetRejected ==
  [][ (BgStepOn("POST", "/setNetwork") /\ events[Head(bgInbox)].body \in InvalidNetBodies)
        => /\ storageNet' = storageNet
           /\ lastNet' = lastNet
           /\ lastNetAt' = lastNetAt
           /\ Replied => Last(responses').status = 400 ]_vars

----------------------------------------------------------------------------
(* Properties of the classifier *)

OverlayHostNames ==
  { OverlayEu1,
    <<<<"overlay", "us", "22">>, Label("bsvb"), Label("tech")>>,
    <<<<"OVERLAY", "EU", "1">>, Label("BSVB"), Label("TECH")>> }
BackendHostNames == { FooProjects, <<Label("x"), Label("Babbage"), Label("systems")>> }
LookupPaths == { <<"lookup">>, <<"LOOKUP">> }
ManifestPaths == { <<"manifest.json">>, <<"app", "Manifest.JSON">> }
Secure(u) == u.kind = "abs" /\ u.scheme \in {"https", "HTTPS"}

\* the class the rules give a URL: paths and hosts compared without regard to case
ClassOf(u) ==
  IF u.kind = "abs" /\ u.path \in LookupPaths /\ u.host \in OverlayHostNames
    THEN "forced_failure"
  ELSE IF Secure(u) /\ u.path \in LookupPaths /\ u.host \in BackendHostNames
    THEN "tunnel_lookup"
  ELSE IF Secure(u) /\ u.path \in ManifestPaths THEN "tunnel_manifest"
  ELSE "pass_through"

\* C10: a call without the bypass marker is given the class of the rules:
\* forced failure for /lookup on an overlay host, tunneled for /lookup on a
\* secure backend host and for a secure manifest.json path, passed through
\* otherwise; the four URLs of the specification get the classes it names.
C10_Classes ==
  (verdict # NoVerdict /\ verdict.marker = "none") =>
    /\ verdict.class = ClassOf(url)
    /\ url = Url("https", <<Label("x")>>, <<"manifest.json">>)
         => verdict.class = "tunnel_manifest"
    /\ url = Url("https", OverlayEu1, <<"lookup">>) => verdict.class = "forced_failure"
    /\ url = Url("https", FooProjects, <<"lookup">>) => verdict.class = "tunnel_lookup"
    /\ url = Url("https", ExampleCom, <<"other">>) => verdict.class = "pass_through"

\* https://foo.projects.babbage.systems/lookup was called without the marker
\* and tunneled
C10_Witness ==
  /\ url = Url("https", FooProjects, <<"lookup">>)
  /\ verdict = [class |-> "tunnel_lookup", marker |-> "none"]

----------------------------------------------------------------------------
(* Properties of the interception of outbound calls *)

\* the call as its caller made it, issued to its own URL
Untouched(o) ==
  /\ o.url = call.url /\ o.method = call.method
  /\ o.marker = call.marker /\ o.body = call.body

\* the round trip of the call has failed
TunnelFailed(cmd) ==
  /\ pc = "done" /\ invoked # <<>>
  /\ Last(invoked).cmd = cmd /\ Last(invoked).result = "failed"

\* C11: a call whose URL is malformed makes no native-host round trip and is
\* neither failed nor answered by the proxy; once made, exactly the original
\* call has been issued, untouched, in both idioms.
C11_MalformedPassesThrough ==
  call.url = BadUrl =>
    /\ invoked = <<>>
    /\ seen.kind \in {"pending", "native"}
    /\ pc = "done" => seen = Native /\ Len(issued) = 1 /\ Untouched(issued[1])

\* an XMLHttpRequest on a malformed URL was sent as it was
C11_Witness ==
  /\ call.idiom = "xhr" /\ call.url = BadUrl /\ pc = "done"
  /\ Len(issued) = 1 /\ issued[1].via = "super.send" /\ issued[1].url = BadUrl

\* C12: a call carrying the bypass marker makes no native-host round trip and
\* is neither failed nor answered by the proxy; once made, exactly the
\* original call has been issued, untouched, in both idioms.
C12_MarkerSkipsInterception ==
  call.marker = "1" =>
    /\ invoked = <<>>
    /\ seen.kind \in {"pending", "native"}
    /\ pc = "done" => seen = Native /\ Len(issued) = 1 /\ Untouched(issued[1])

\* C13: when the round trip of a backend /lookup has failed, the caller has
\* a completed response with status 200, the empty output list as body and
\* the soft-fail header, in both idioms.
C13_LookupSoftFails ==
  TunnelFailed("proxy_fetch_any") =>
    /\ seen.kind \in {"response", "load"}
    /\ seen.status = 200
    /\ seen.body = "empty_output_list"
    /\ seen.softFail

\* C14: when the round trip of a manifest call has failed, exactly the
\* original call has been issued, to the original URL with the original
\* method, headers and body, in both idioms.
C14_ManifestFallsBack ==
  TunnelFailed("proxy_fetch_manifest") =>
    seen = Native /\ Len(issued) = 1 /\ Untouched(issued[1])

----------------------------------------------------------------------------
(* Properties of the watchdog *)

\* the probes of watchdog i have all failed so far
AllFailing(i) == i \in DOMAIN dogs /\ ~dogs[i].sawOk

\* this step is watchdog i returning
Returns(i) ==
  /\ i \in DOMAIN dogs /\ dogs[i].phase = "probing"
  /\ i \in DOMAIN dogs' /\ dogs'[i].phase = "healthy"

\* C15: a watchdog whose probes all fail never returns; the document is
\* reloaded, once, and the watchdog that reloads it does so
\* RELOAD_AFTER_TOTAL_MS or more after it started.
C15_OneReloadAfterBudget ==
  /\ [](/\ Len(reloadLog) <= 1
        /\ \A k \in DOMAIN reloadLog :
             reloadLog[k].at - reloadLog[k].start >= RELOAD_AFTER_TOTAL_MS
        /\ \A i \in DOMAIN dogs : AllFailing(i) => dogs[i].phase # "healthy")
  /\ \A i \in 1..MaxWatchdogs :
       AllFailing(i) ~> (Len(reloadLog) = 1 \/ (i \in DOMAIN dogs /\ dogs[i].sawOk))

\* a watchdog none of whose probes succeeded has reloaded the document
C15_Witness ==
  /\ Len(reloadLog) = 1
  /\ ~reloadLog[1].sawOk
  /\ reloadLog[1].at - reloadLog[1].start >= RELOAD_AFTER_TOTAL_MS
  /\ page = "loading"

\* C16: a watchdog one of whose probes succeeded performs no reload: it is
\* in the round of that probe or has returned, and when it returns the
\* banner is removed.
C16_NoReloadOnceHealthy ==
  /\ [](/\ \A k \in DOMAIN reloadLog : ~reloadLog[k].sawOk
        /\ \A i \in DOMAIN dogs :
             dogs[i].sawOk => dogs[i].phase \in {"probing", "healthy"})
  /\ [][ \A i \in 1..MaxWatchdogs : Returns(i) => banner' = "none" ]_vars
  /\ \A i \in 1..MaxWatchdogs :
       (i \in DOMAIN dogs /\ dogs[i].sawOk) ~>
         (page = "loading" \/ (i \in DOMAIN dogs /\ dogs[i].phase = "healthy"))

\* a watchdog has returned after a probe succeeded on a retry, the banner
\* is gone and nothing was reloaded
C16_Witness ==
  /\ reloadLog = <<>>
  /\ banner = "none"
  /\ now > StartNow
  /\ \E i \in DOMAIN dogs : dogs[i].phase = "healthy" /\ dogs[i].sawOk

\* C17: over all watchdogs started and all page loads, the document is
\* reloaded at most once.
C17_AtMostOneReload == Len(reloadLog) <= 1

----------------------------------------------------------------------------
(* Properties of the capability bridge: origin and errors *)

\* request n is on an operation path and carries neither header
NoOriginGiven(n) ==
  /\ events[n].json /\ events[n].headers.isList
  /\ events[n].path \in CapPaths
  /\ HeaderGet(events[n].headers.pairs, "origin") = ""
  /\ HeaderGet(events[n].headers.pairs, "originator") = ""

\* C18: a request on an operation path with neither an origin nor an
\* originator header gets, once the listener has finished with it, exactly one
\* reply: status 400, Origin header is required (no emit having failed).
C18_OriginRequiredOnly ==
  \A n \in DOMAIN events :
    (CapDone(n) /\ NoOriginGiven(n) /\ n \notin emitFailed)
      => /\ Cardinality(RepliesOf(n, "cap")) = 1
         /\ \A i \in RepliesOf(n, "cap") :
              responses[i].status = 400 /\ responses[i].body = Body("origin_required")

\* C19: every invocation of the wallet passes an Origin that is the host of
\* the origin or originator header of its request.
C19_WalletGetsOrigin ==
  \A c \in walletCalls :
    /\ c.origin.kind = "host"
    /\ \/ HeaderGet(events[c.ev].headers.pairs, "origin") # ""
       \/ HeaderGet(events[c.ev].headers.pairs, "originator") # ""

\* the operations whose handler recognizes the requires-review error
ReviewedOperations == {"/createAction", "/signAction", "/internalizeAction"}

\* the reply the handler of wallet call c emitted after the wallet settled
WalletReplies(c) ==
  {i \in RepliesOf(c.ev, "cap") : responses[i].via = "switch"}

\* C20, as claimed: for every operation, a wallet call that failed with the
\* requires-review error is answered 400 with the review payload, and one
\* that failed with another error 400 with {message}.
C20_ReviewForEveryOperation ==
  \A c \in walletCalls : \A i \in WalletReplies(c) :
    /\ c.outcome = "review" =>
         responses[i].status = 400 /\ responses[i].body = Body("review")
    /\ c.outcome = "error" =>
         responses[i].status = 400 /\ responses[i].body = Body("message")

\* C20, amended: for /createAction, /signAction and /internalizeAction a call
\* that failed with the requires-review error is answered 400 with the review
\* payload; for every other operation that error, and for every operation any
\* other Error, is answered 400 with {message}.
C20_ReviewForActions ==
  \A c \in walletCalls : \A i \in WalletReplies(c) :
    /\ (c.outcome = "review" /\ c.op \in ReviewedOperations) =>
         responses[i].status = 400 /\ responses[i].body = Body("review")
    /\ (c.outcome = "review" /\ c.op \notin ReviewedOperations) =>
         responses[i].status = 400 /\ responses[i].body = Body("message")
    /\ c.outcome = "error" =>
         responses[i].status = 400 /\ responses[i].body = Body("message")

\* /createAction failed with the requires-review error and was answered 400
\* with the review payload
C20_Witness ==
  \E c \in walletCalls :
    /\ c.op = "/createAction" /\ c.outcome = "review"
    /\ \E i \in WalletReplies(c) :
         responses[i].status = 400 /\ responses[i].body = Body("review")

\* request n is on an operation that takes arguments and its body is not JSON
BadArgs(n) ==
  /\ events[n].json /\ ~CapThrows(events[n])
  /\ events[n].path \in ArgPaths
  /\ ~JsonParses(events[n].body)

\* C21: a request on an operation that takes arguments whose body fails to
\* parse gets, once the listener has finished with it, exactly one reply,
\* status 400 with {message}, and the wallet is not invoked for it (no emit
\* having failed).
C21_BadArgsRejectedOnce ==
  \A n \in DOMAIN events :
    (CapDone(n) /\ BadArgs(n) /\ n \notin emitFailed)
      => /\ Cardinality(RepliesOf(n, "cap")) = 1
         /\ \A i \in RepliesOf(n, "cap") :
              responses[i].status = 400 /\ responses[i].body = Body("message")
         /\ \A c \in walletCalls : c.ev # n

----------------------------------------------------------------------------
(* Properties of the events of ProxyXHR *)

\* the events delivered to observer `to`, in order
EventsSeenBy(to) ==
  LET q == SelectSeq(fired, LAMBDA d : d.to = to) IN [i \in 1..Len(q) |-> q[i].type]

\* the round trip of an XMLHttpRequest call succeeded and send has finished
TunnelCompleted ==
  /\ call.idiom = "xhr" /\ pc = "done"
  /\ invoked # <<>> /\ Last(invoked).result = "ok"

\* C22: when a tunneled XMLHttpRequest has completed, readyState is 4; every
\* observer was run with readyState 4, the tunneled status and the tunneled
\* body; the listeners saw readystatechange, load, loadend, in that order and
\* once each; an assigned onload handler was run once.
C22_CompletionEvents ==
  TunnelCompleted =>
    /\ readyState = 4
    /\ \A i \in 1..Len(fired) :
         fired[i].readyState = 4 /\ fired[i].status = 200 /\ fired[i].body = "tunneled"
    /\ EventsSeenBy("listener") = <<"readystatechange", "load", "loadend">>
    /\ EventsSeenBy("onload") = IF call.onload THEN <<"load">> ELSE <<>>

\* send has finished on an XMLHttpRequest opened on /lookup of an overlay host
OverlayXhrSent ==
  /\ call.idiom = "xhr" /\ pc = "done"
  /\ IsLookup(call.url) /\ IsOverlayHost(HostOf(call.url))

\* C23: send on an XMLHttpRequest for /lookup on an overlay host fires error
\* then loadend, fires no load event and runs no onload handler, and leaves
\* the status 0.
C23_ErrorThenLoadend ==
  OverlayXhrSent =>
    /\ EventsSeenBy("listener") = <<"error", "loadend">>
    /\ EventsSeenBy("onload") = <<>>
    /\ seen.status = 0
    /\ \A i \in 1..Len(fired) : fired[i].status = 0

\* the call is a /lookup on an overlay host that the idiom it is made in
\* forces to fail
ForcedFailure ==
  /\ call.idiom \in {"fetch", "xhr"}
  /\ IsLookup(call.url) /\ IsOverlayHost(HostOf(call.url))
  /\ call.idiom = "fetch" => ~Bypass(InitMarker(call))

\* C24: a call forced to fail makes no native-host round trip and issues no
\* request, and once made the caller has a network error, in both idioms.
C24_ForcedFailureStaysLocal ==
  ForcedFailure =>
    /\ invoked = <<>>
    /\ issued = <<>>
    /\ pc = "done" => seen.kind = "network_error"

----------------------------------------------------------------------------
(* Properties of the manifest rule *)

\* the spellings of manifest.json among the path segments of FetchPaths, and
\* the segments that end with one of them as strings
ManifestSegments == {"manifest.json", "Manifest.JSON"}
SuffixSegments == ManifestSegments \cup {"foomanifest.json"}

\* the last segment of the path of u is one of `segments`
LastSegmentIn(u, segments) ==
  u.kind # "bad" /\ Len(u.path) >= 1 /\ u.path[Len(u.path)] \in segments

\* C25, as claimed: a call to a secure URL is tunneled as a manifest call
\* exactly when its path, as a string, ends with manifest.json in any case;
\* a call to a non-secure URL with such a path is passed through.
C25_ManifestByPathSuffix ==
  verdict # NoVerdict =>
    /\ Secure(url) =>
         (verdict.class = "tunnel_manifest" <=> LastSegmentIn(url, SuffixSegments))
    /\ (~Secure(url) /\ LastSegmentIn(url, SuffixSegments)) =>
         verdict.class \in {"pass_through", "bypass"}

\* C25, amended: a call that does not carry the bypass marker to a secure URL
\* is tunneled as a manifest call exactly when the last segment of its path
\* is manifest.json in any case; a call to a non-secure URL with such a path
\* is passed through.
C25_ManifestByLastSegment ==
  (verdict # NoVerdict /\ ~Bypass(verdict.marker)) =>
    /\ Secure(url) =>
         (verdict.class = "tunnel_manifest" <=> LastSegmentIn(url, ManifestSegments))
    /\ (~Secure(url) /\ LastSegmentIn(url, ManifestSegments)) =>
         verdict.class = "pass_through"

\* https://example.com/app/Manifest.JSON was called without the marker and
\* tunneled as a manifest call
C25_Witness ==
  /\ url = Url("https", ExampleCom, <<"app", "Manifest.JSON">>)
  /\ verdict = [class |-> "tunnel_manifest", marker |-> "none"]

----------------------------------------------------------------------------
(* Properties of the round trip to the native host *)

\* the call is one the idiom it is made in tunnels
SelectedForTunnel ==
  \/ /\ call.idiom = "fetch"
     /\ FetchClass(call.url, InitMarker(call)) \in {"tunnel_lookup", "tunnel_manifest"}
  \/ /\ call.idiom = "xhr"
     /\ ~(IsLookup(call.url) /\ IsOverlayHost(HostOf(call.url)))
     /\ XhrIntercept(call.url)

\* C26: a call selected for tunneling makes one native-host round trip, and
\* no second one when it fails; the round trip carries the method (in upper
\* case or as given), the url, the headers and the body of the call.
C26_OneRoundTripCarryingTheCall ==
  /\ Len(invoked) <= 1
  /\ (SelectedForTunnel /\ pc \in {"awaiting", "done"}) => Len(invoked) = 1
  /\ \A i \in 1..Len(invoked) :
       /\ invoked[i].url = call.url
       /\ invoked[i].method \in {call.method, ToUpperCase(call.method)}
       /\ invoked[i].marker = call.marker
       /\ invoked[i].body = call.body

----------------------------------------------------------------------------
(* Properties of startMndHeal and of the rounds of the watchdog *)

\* this step is the oldest startMndHeal() call going on after its probes
StartStep ==
  /\ starting # <<>> /\ starting' = Tail(starting)
  /\ listeners' = listeners + 1

\* some probe of the startMndHeal() call `results` failed
AProbeFailed(results) == \E i \in DOMAIN results : ~results[i].ok

\* C27: a startMndHeal() call makes one probe, of one attempt, per critical
\* endpoint; it starts a watchdog, which shows the banner, exactly when one
\* of them failed, and otherwise leaves watchdogs, banner and document as
\* they are; no watchdog starts in another way and no reload happens
\* without a watchdog.
C27_WatchdogIffAProbeFails ==
  [][ /\ StartStep =>
           LET r == Head(starting) IN
           /\ DOMAIN r = DOMAIN CRITICAL_ENDPOINTS
           /\ \A i \in DOMAIN r : r[i].attempts = 1
           /\ AProbeFailed(r) <=> Len(dogs') = Len(dogs) + 1
           /\ AProbeFailed(r) =>
                banner' # "none" /\ dogs'[Len(dogs')].phase = "probing"
           /\ ~AProbeFailed(r) =>
                dogs' = dogs /\ banner' = banner /\ reloadLog' = reloadLog
      /\ Len(dogs') > Len(dogs) => StartStep /\ AProbeFailed(Head(starting))
      /\ Len(reloadLog') > Len(reloadLog) => dogs # <<>>
    ]_vars

\* a startMndHeal() call one of whose probes failed has just started the
\* first watchdog, and the banner is shown
C27_Witness ==
  /\ Len(dogs) = 1 /\ dogs[1].phase = "probing" /\ dogs[1].start = now
  /\ starting = <<>> /\ listeners = 1
  /\ banner # "none" /\ reloadLog = <<>>

\* C28: a watchdog in a round in which an endpoint reports healthy returns
\* when the first endpoint does so, not when the retries of the others are
\* over.
C28_ExitsAtFirstHealthy ==
  \A i \in DOMAIN dogs :
    (dogs[i].phase = "probing" /\ dogs[i].healthy) => dogs[i].wake = dogs[i].okAt

----------------------------------------------------------------------------
(* Properties of retryPing *)

\* the attempts of the retryPing call that found the endpoint failing
FailedAttempts == {a \in 0..MAX_RETRIES_PER_URL : a < rp.pings /\ script[a] # "ok"}

\* C29: retryPing makes at most MAX_RETRIES_PER_URL + 1 = 5 probes; it
\* returns true at its first successful probe, false only after 5 failed
\* probes, makes no probe after it returned, and it returns; its result and
\* the time it takes are those the watchdog rounds count with.
C29_RetryPingBoundedAndExact ==
  /\ [](/\ rp.pings <= MAX_RETRIES_PER_URL + 1
        /\ rp.pings <= 5
        /\ rp.result = "true" =>
             /\ script[rp.pings - 1] = "ok"
             /\ \A a \in 0..(rp.pings - 2) : script[a] # "ok"
        /\ rp.result = "false" =>
             /\ rp.pings = 5
             /\ \A a \in 0..MAX_RETRIES_PER_URL : script[a] # "ok"
        /\ rp.pc = "done" =>
             /\ rp.result \in {"true", "false"}
             /\ RetryPing(script, 0, 0) = [ok |-> rp.result = "true", ms |-> rp.ms])
  /\ [][rp.pc = "done" => rp' = rp]_vars
  /\ <>(rp.pc = "done")

\* retryPing returned true at its third probe, after two failed ones
C29_Witness ==
  /\ rp.pc = "done" /\ rp.result = "true" /\ rp.pings = 3
  /\ script[0] = "fail" /\ script[1] = "timeout" /\ script[2] = "ok"

\* the delays the claim gives, by the number of failed attempts before
BackoffMs == <<500, 1000, 2000, 4000, 4000>>

\* C30: retryPing sleeps after each failed probe, and the k-th sleep (k from
\* 0) is min(500 * 2^k, 4000) ms: 500, 1000, 2000, 4000, and 4000 after the
\* last probe.
C30_BackoffDoublesToCap ==
  /\ Len(rp.delays) = Cardinality(FailedAttempts)
  /\ \A k \in 0..(Len(rp.delays) - 1) :
       /\ rp.delays[k + 1] = BackoffMs[k + 1]
       /\ rp.delays[k + 1] = IF 500 * (2 ^ k) <= 4000 THEN 500 * (2 ^ k) ELSE 4000

\* retryPing returned false after its five probes and its five sleeps
C30_Witness ==
  /\ rp.pc = "done" /\ rp.result = "false"
  /\ rp.delays = <<500, 1000, 2000, 4000, 4000>>

----------------------------------------------------------------------------
(* Properties of a probe attempt *)

\* C31: a probe attempt is never pending beyond PER_TRY_TIMEOUT_MS; one whose
\* answer is not in by then is aborted and returns false; an attempt that was
\* aborted stays a failure, also once its answer has come, and an attempt
\* returns true only on an ok answer that came within the timeout.
C31_TimedOutProbeFails ==
  /\ probe.pc = "fetching" => probe.ms <= PER_TRY_TIMEOUT_MS
  /\ (probe.pc = "done" /\ probe.answer.at > PER_TRY_TIMEOUT_MS) => probe.aborted
  /\ probe.aborted => (probe.result = "false" /\ probe.at = PER_TRY_TIMEOUT_MS)
  /\ probe.result = "true" =>
       (probe.answer.kind = "ok" /\ probe.answer.at <= PER_TRY_TIMEOUT_MS /\ ~probe.aborted)

C31_Witness ==
  probe.late /\ probe.answer.kind = "ok" /\ probe.answer.at > PER_TRY_TIMEOUT_MS
    /\ probe.result = "false"

----------------------------------------------------------------------------
(* Properties of the network transitions *)

\* the network goes away in this step
OfflineTransition == online /\ ~online'

\* C32: on every offline transition the banner shows the offline message at
\* once, and the transition starts no probe: no startMndHeal call and no
\* round of a watchdog begins in that step.
C32_OfflineShowsMessage ==
  [][ OfflineTransition =>
        (banner' = "Offline" /\ starting' = starting /\ dogs' = dogs) ]_vars

----------------------------------------------------------------------------
(* Properties of overlapping requests *)

\* the handler of request n is suspended at its wallet call
PendingOp(n) == \E t \in capTasks : t.ev = n

\* C33: whatever wallet operations are pending, the listener takes the next
\* request it was given, and the handler of any pending operation replies
\* as soon as that operation is over: no handler waits for another.
C33_HandledIndependently ==
  /\ capInbox # <<>> => ENABLED CapReceive(Head(capInbox))
  /\ \A t \in capTasks : ENABLED CapWalletDone(t)

\* the later of two requests is answered while the wallet operation of the
\* earlier one is still pending
C33_Witness ==
  /\ PendingOp(1)
  /\ events[1].path = "/waitForAuthentication"
  /\ RepliesOf(2, "cap") # {}

----------------------------------------------------------------------------
(* Properties of the cached exchange rate *)

\* the replies handle() made to GET /exchangerate requests
RateReplies ==
  {i \in 1..Len(responses) :
     /\ responses[i].by = "bg" /\ responses[i].via = "handle"
     /\ RouteOf(NormalizeReq(responses[i].ev)) = "exchangerate"}

\* a cached rate exists and its timestamp is less than RATE_TTL_MS old
CachedRateUsable ==
  /\ rateStore.has /\ rateStore.parses
  /\ rateStore.at # 0
  /\ now - rateStore.at < RATE_TTL_MS

\* C34: GET /exchangerate is answered 200 with the cached value plus
\* cached:true exactly when a cached rate exists that is less than
\* RATE_TTL_MS old, and 200 {cached:false, unavailable:true} otherwise;
\* handling a request never changes the cached rate or its timestamp.
C34_ExchangeRateFromCache ==
  /\ [](\A i \in RateReplies :
          /\ responses[i].status = 200
          /\ responses[i].body =
               IF CachedRateUsable THEN Body("rate_cached") ELSE Body("rate_unavailable"))
  /\ [][rateStore' = rateStore]_vars

----------------------------------------------------------------------------
(* Properties of the legacy request object across open and send *)

\* C35: for a legacy request that has been sent, open redirected it to the
\* no-op target exactly when send delivered a synthesized outcome (a load
\* with the tunneled result or the empty output list, or a network error); a
\* request opened on its own URL was sent natively on that URL; and no
\* request was sent natively on the no-op target.
C35_OpenConsistentWithSend ==
  (call.idiom = "xhr" /\ pc = "done") =>
    /\ (xhrTarget = AboutBlank) <=> (seen.kind \in {"load", "network_error"})
    /\ xhrTarget # AboutBlank =>
         (seen = Native /\ Len(issued) = 1 /\ issued[1].url = call.url)
    /\ \A i \in DOMAIN issued : issued[i].url # AboutBlank

----------------------------------------------------------------------------
(* The two idioms against each other *)

\* the class the proxy took for the call, read off what it did: a round
\* trip to the native host, the original call, or neither
ClassTaken ==
  IF invoked # <<>>
    THEN IF invoked[1].cmd = "proxy_fetch_any" THEN "tunnel_lookup" ELSE "tunnel_manifest"
  ELSE IF issued # <<>> THEN "pass_through"
  ELSE "forced_failure"

\* C36: a call without a bypass marker is given the same class by both
\* idioms: once the patched fetch, or send of the legacy object, has run, the
\* class taken is the one the rules of the patched fetch give its URL,
\* whatever the method.
C36_SameClassInBothIdioms ==
  (call.idiom \in {"fetch", "xhr"} /\ call.marker = "none" /\ pc \in {"awaiting", "done"}) =>
    ClassTaken = FetchClass(call.url, "none")

\* a legacy request for an overlay lookup over http has been failed
C36_Witness ==
  /\ call.idiom = "xhr" /\ call.marker = "none" /\ pc = "done"
  /\ ~IsHttps(call.url)
  /\ ClassTaken = "forced_failure"
  /\ FetchClass(call.url, "none") = "forced_failure"

----------------------------------------------------------------------------
(* Properties of a legacy request superseded in flight *)

\* C37: when a legacy request was aborted or re-opened while its round trip
\* was in flight, the result of that round trip is not applied: no load is
\* delivered and status and body are not defined from it.
C37_LateResultDropped ==
  (call.idiom = "xhr" /\ superseded # "no") =>
    /\ \A i \in DOMAIN fired : fired[i].type # "load"
    /\ seen.kind \notin {"load", "rejected"}

----------------------------------------------------------------------------
(* Properties of the start of the background bridge *)

\* C38: however startHttpBridge is called, at most one http-request listener
\* is registered, and no request has more than one reply from the
\* background bridge.
C38_StartedOnce ==
  /\ bgListeners <= 1
  /\ \A n \in DOMAIN events : Cardinality(RepliesOf(n, "bg")) <= 1

----------------------------------------------------------------------------
(* Properties of the listeners of startMndHeal *)

\* the network comes back in this step
OnlineTransition == ~online /\ online'

\* C39: at most one 'online' and one 'offline' listener of startMndHeal is
\* ever registered, and an online transition the listener observes starts
\* exactly one startMndHeal call, hence at most one watchdog.
C39_OneListenerOneRound ==
  /\ [](listeners <= 1)
  /\ [][ (OnlineTransition /\ listeners >= 1) => Len(starting') = Len(starting) + 1 ]_vars

\* C40: a banner that is shown while the network is online does not stay:
\* it is removed (by a watchdog finding an endpoint healthy, or with the
\* document on a reload) unless the network goes away again.
C40_BannerEventuallyRemoved ==
  (banner # "none" /\ online) ~> (banner = "none" \/ ~online)

====
